---- MODULE Spec2Model ----
(***************************************************************************)
(* s54http: a SOCKS5 proxy split into a local part (src/proxy.py) and a    *)
(* remote part (src/s54http/server.py), joined by one TLS tunnel that      *)
(* carries length-prefixed, type-tagged messages.                          *)
(*                                                                         *)
(* Several specifications share this module:                               *)
(*   SpecFramer  TunnelProtocol.dataReceived at byte level                 *)
(*   SpecFramerAny  the same, fed frames with a length field below 5 too   *)
(*   SpecAlloc   Socks5Factory.sock_id, the stream id allocator            *)
(*   SpecCache   utils.Cache, the bounded address cache                    *)
(*   SpecTLS     the context built by utils.SSLCtxFactory in one handshake *)
(*   SpecWire    the bytes the two dispatchers write to the tunnel         *)
(*   SpecResolve the remote dispatcher alone, hosts of more shapes         *)
(*   SpecSocks   Socks5Protocol at byte level: one client in front of an   *)
(*               established tunnel                                        *)
(*   Spec        the two dispatchers, the SOCKS front end, the target      *)
(*               stream proxies and the tunnel between them                *)
(* Every handler of the Twisted event loop runs to completion, so each     *)
(* handler is one action.                                                  *)
(***************************************************************************)
EXTENDS Integers, Sequences, FiniteSets, TLC

VARIABLES
    \* ---- SpecFramer: one TunnelProtocol fed a byte stream
    f_msgs,        \* the messages the peer wrote, in order
    f_rest,        \* bytes of their concatenation not yet delivered
    buffer,        \* TunnelProtocol.buffer
    f_out,         \* messages handed to dispatcher.dispatchMessage, in order
    f_lost,        \* dataReceived raised: the transport dropped the connection
    \* ---- SpecAlloc: Socks5Factory
    _sock_id,      \* Socks5Factory._sock_id
    issued,        \* ids returned in this tunnel epoch, as runs <<lo, hi>>
    n_issued,      \* how many ids were returned in this tunnel epoch
    last_id,       \* the id returned last (zero: none yet)
    dup,           \* an id was returned twice in this tunnel epoch
    n_accepts,     \* clients accepted in this run of the model
    \* ---- Spec, local side (src/proxy.py)
    tun,           \* the tunnel connector: "connecting", "up", "reconnecting", "stopped"
    epoch,         \* tunnel connections made so far; names the newest transport
    link,          \* the newest tunnel connection: "none", "up", "broken"
    l_transport,   \* local SocksDispatcher.transport: 0 for None, else its epoch
    l_socks,       \* local SocksDispatcher.socks: sock_id -> client
    l_buffer,      \* local TunnelProtocol.buffer, as whole messages
    cl,            \* the accepted Socks5Protocol instances, by order of accept
    wire_lr,       \* messages on the tunnel, local to remote, not yet received
    wire_rl,       \* messages on the tunnel, remote to local, not yet received
    \* ---- Spec, remote side (src/s54http/server.py)
    r_socks,       \* per tunnel connection: remote SocksDispatcher.socks, sock_id -> proxy
    r_alive,       \* per tunnel connection: connectionLost not yet delivered
    r_buffer,      \* remote TunnelProtocol.buffer of the newest connection
    px,            \* the SockProxy instances, by order of creation
    addr_cache,    \* factory.addr_cache: <<host, addr>> pairs, oldest first
    \* ---- Spec, observations
    sent_lr,       \* per sock_id: <<type, epoch>> of each message the local wrote
    sent_rl,       \* per sock_id: <<type, epoch>> of each message the remote wrote
    c_sent,        \* per client: the bytes it sent in state sendRemote
    c_recv,        \* per client: the bytes written to its TCP by handleRemote
    n_events,      \* payload chunks and tunnel breaks so far (bounded by MaxEvents)
    \* ---- SpecSocks: one Socks5Protocol fed a byte stream
    s5_all,        \* the bytes the client sends over the life of its connection
    s5_in,         \* those of them not yet delivered
    s5_buffer,     \* Socks5Protocol.buffer
    s5_out,        \* the bytes written to the client's transport
    \* ---- SpecCache: one utils.Cache
    k_limit,       \* Cache.limit
    k_cache,       \* the OrderedDict: <<key, value>> pairs, oldest first
    k_keys,        \* the keys passed to __setitem__ so far, in order
    k_got,         \* the latest lookup: 0 none yet, -1 KeyError, else the value
    \* ---- SpecTLS: one tunnel connection of one endpoint, from accept/connect on
    t_isClient,    \* SSLCtxFactory.isClient: TRUE on the local side
    t_peer,        \* what the other end offers: versions, ciphers, certificate
    t_conn,        \* "none", "handshake", "established", "failed"
    t_session,     \* the negotiated version and cipher, once established
    t_frames,      \* frames passed to dispatchMessage on this connection
    \* ---- SpecWire: the writes of the two dispatchers at byte level
    w_calls,       \* the handler calls so far: direction, type, arguments, writes
    w_lr,          \* the bytes the local tunnel transport was given, in order
    w_rl           \* the bytes the remote tunnel transport was given, in order

fvars == <<f_msgs, f_rest, buffer, f_out, f_lost>>
avars == <<_sock_id, issued, n_issued, last_id, dup, n_accepts>>
lvars == <<tun, epoch, link, l_transport, l_socks, l_buffer, cl, wire_lr, wire_rl>>
rvars == <<r_socks, r_alive, r_buffer, px, addr_cache>>
ovars == <<sent_lr, sent_rl, c_sent, c_recv, n_events>>
svars == <<lvars, rvars, ovars>>
\* what an event inside the remote process leaves alone on the local side
localOnly == <<tun, epoch, link, l_transport, l_socks, l_buffer, cl, wire_lr,
               sent_lr, c_sent, c_recv>>
hvars == <<s5_all, s5_in, s5_buffer, s5_out>>
kvars == <<k_limit, k_cache, k_keys, k_got>>
\* the variables of the specifications of single components added later
tvars == <<t_isClient, t_peer, t_conn, t_session, t_frames>>
wvars == <<w_calls, w_lr, w_rl>>
xvars == <<kvars, tvars, wvars>>
vars == <<fvars, avars, svars, hvars, xvars>>

None == "None"

Drop(s, n) == SubSeq(s, n + 1, Len(s))
Take(s, n) == SubSeq(s, 1, n)

IsPrefix(s, t) == Len(s) <= Len(t) /\ s = SubSeq(t, 1, Len(s))

RECURSIVE Concat(_)
Concat(ss) == IF ss = <<>> THEN <<>> ELSE Head(ss) \o Concat(Tail(ss))

(***************************************************************************)
(* Stream ids and their counter are Python integers that range up to 2^32; *)
(* they are kept here as two 16-bit limbs <<high, low>>, value             *)
(* high * 65536 + low, so that the arithmetic at 2^32 - 1 is exact.        *)
(***************************************************************************)
U32(high, low) == <<high, low>>
U32Max == U32(65535, 65535)                        \* 2**32 - 1
U32Inc(x) == IF x[2] = 65535 THEN U32(x[1] + 1, 0) ELSE U32(x[1], x[2] + 1)
U32Le(x, y) == x[1] < y[1] \/ (x[1] = y[1] /\ x[2] <= y[2])
FitsU32(x) == x[1] \in 0..65535 /\ x[2] \in 0..65535

(***************************************************************************)
(* struct.pack / struct.unpack, network byte order                         *)
(***************************************************************************)
pack_I(n) == << (n \div 16777216) % 256, (n \div 65536) % 256,
                (n \div 256) % 256, n % 256 >>
pack_B(n) == << n % 256 >>
pack_Id(x) == << x[1] \div 256, x[1] % 256, x[2] \div 256, x[2] % 256 >>
unpack_I(b) == b[1] * 16777216 + b[2] * 65536 + b[3] * 256 + b[4]

\* type 2, server.py handleConnect: struct.pack('!IBIB', 10, 2, sock_id, code)
msgConnectReply(id, code) == pack_I(10) \o pack_B(2) \o pack_Id(id) \o pack_B(code)
\* type 4, server.py handleRemote: header '!IBI' (9 + len, 4, sock_id), then data
msgDataIn(id, data) == pack_I(9 + Len(data)) \o pack_B(4) \o pack_Id(id) \o data
\* type 6, server.py handleClose: struct.pack('!IBI', 9, 6, sock_id)
msgCloseRemote(id) == pack_I(9) \o pack_B(6) \o pack_Id(id)

(***************************************************************************)
(* TunnelProtocol.dataReceived (the same text on both endpoints).          *)
(* Result: the new buffer and the messages passed to dispatchMessage.      *)
(* dispatchMessage unpacks message[4:5]; on a message shorter than 5 bytes *)
(* struct.unpack raises before the buffer is advanced: the message was     *)
(* handed over, the buffer keeps it.                                       *)
(***************************************************************************)
dataReceived(buf, data) ==
    LET b == buf \o data IN                                   \* self.buffer += data
    IF Len(b) < 4 THEN [buffer |-> b, out |-> <<>>, raised |-> FALSE]
    ELSE LET length == unpack_I(Take(b, 4)) IN
         IF Len(b) < length THEN [buffer |-> b, out |-> <<>>, raised |-> FALSE]
         ELSE LET message == Take(b, length) IN               \* memoryview(buffer)[:length]
              IF Len(message) < 5
              THEN [buffer |-> b, out |-> <<message>>, raised |-> TRUE]
              ELSE [buffer |-> Drop(b, length), out |-> <<message>>, raised |-> FALSE]

(***************************************************************************)
(* SpecFramer                                                              *)
(***************************************************************************)
MaxMsgs == 2

FramePool == { msgConnectReply(U32(0, 1), 1), msgDataIn(U32(0, 2), <<104>>),
               msgDataIn(U32(0, 1), <<>>), msgCloseRemote(U32(0, 2)) }

RECURSIVE SeqsUpTo(_, _)
SeqsUpTo(S, n) ==
    IF n = 0 THEN {<<>>}
    ELSE LET shorter == SeqsUpTo(S, n - 1) IN
         shorter \cup { Append(s, x) : s \in shorter, x \in S }

AllocIdle ==
    /\ _sock_id = U32(0, 0) /\ issued = <<>> /\ n_issued = U32(0, 0)
    /\ last_id = U32(0, 0) /\ dup = FALSE /\ n_accepts = 0

FramerIdle ==
    /\ f_msgs = <<>> /\ f_rest = <<>> /\ buffer = <<>> /\ f_out = <<>>
    /\ f_lost = FALSE

SystemIdle ==
    /\ tun = "stopped" /\ epoch = 0 /\ link = "none" /\ l_transport = 0
    /\ l_socks = <<>> /\ l_buffer = <<>> /\ cl = <<>> /\ wire_lr = <<>> /\ wire_rl = <<>>
    /\ r_socks = <<>> /\ r_alive = <<>> /\ r_buffer = <<>> /\ px = <<>> /\ addr_cache = <<>>
    /\ sent_lr = <<>> /\ sent_rl = <<>> /\ c_sent = <<>> /\ c_recv = <<>> /\ n_events = 0

SocksIdle ==
    /\ s5_all = <<>> /\ s5_in = <<>> /\ s5_buffer = <<>> /\ s5_out = <<>>

CacheIdle ==
    /\ k_limit = 0 /\ k_cache = <<>> /\ k_keys = <<>> /\ k_got = 0

NoSession == [version |-> "none", cipher |-> "none"]

TlsIdle ==
    /\ t_isClient = FALSE /\ t_conn = "none"
    /\ t_peer = [versions |-> {}, ciphers |-> {}, cert |-> "none"]
    /\ t_session = NoSession /\ t_frames = 0

WireIdle ==
    /\ w_calls = <<>> /\ w_lr = <<>> /\ w_rl = <<>>

OthersIdle == CacheIdle /\ TlsIdle /\ WireIdle

InitFramer ==
    /\ f_msgs \in SeqsUpTo(FramePool, MaxMsgs) \ {<<>>}
    /\ f_rest = Concat(f_msgs)
    /\ buffer = <<>>                      \* connectionMade: self.buffer = b''
    /\ f_out = <<>>
    /\ f_lost = FALSE
    /\ AllocIdle
    /\ SystemIdle
    /\ SocksIdle
    /\ OthersIdle

\* the transport delivers the next k bytes of the stream as one chunk; an
\* exception that leaves dataReceived makes the transport drop the connection
FramerDeliver ==
    \E k \in 1..Len(f_rest) :
        LET r == dataReceived(buffer, Take(f_rest, k)) IN
        /\ ~f_lost
        /\ f_lost' = r.raised
        /\ f_rest' = Drop(f_rest, k)
        /\ buffer' = r.buffer
        /\ f_out' = f_out \o r.out
        /\ UNCHANGED <<f_msgs, avars, svars, hvars, xvars>>

NextFramer == FramerDeliver

SpecFramer == InitFramer /\ [][NextFramer]_vars

\* SpecFramerAny: the peer may also write frames whose length field is
\* smaller than the five bytes of length and type
BadFrames == { pack_I(0), pack_I(3) \o <<6, 0, 0>>, pack_I(4) }

InitFramerAny ==
    /\ f_msgs \in SeqsUpTo(FramePool \cup BadFrames, MaxMsgs) \ {<<>>}
    /\ f_rest = Concat(f_msgs)
    /\ buffer = <<>>                      \* connectionMade: self.buffer = b''
    /\ f_out = <<>>
    /\ f_lost = FALSE
    /\ AllocIdle
    /\ SystemIdle
    /\ SocksIdle
    /\ OthersIdle

SpecFramerAny == InitFramerAny /\ [][NextFramer]_vars

(***************************************************************************)
(* SpecAlloc: Socks5Factory.sock_id, read once per accepted client         *)
(* (Socks5Protocol.connectionMade).  A tunnel epoch is the time between    *)
(* two calls of SocksDispatcher.tunnelConnected; the counter belongs to    *)
(* the factory and is not touched by tunnel events.                        *)
(***************************************************************************)
MaxAccepts == 10

\* the counter is assigned but the wrap test is off by one
sock_id_WrapLate(s) ==
    LET s1 == IF U32Inc(U32Max) = s THEN U32(0, 0) ELSE s IN U32Inc(s1)

\* the sum is computed but never stored
sock_id_NotStored(s) == s

\* the property sock_id: the new value of _sock_id, which is also returned
sock_id(s) ==
    LET s1 == IF U32Max = s THEN U32(0, 0) ELSE s       \* if 2**32 - 1 == self._sock_id
    IN U32Inc(s1)                                       \* self._sock_id + 1

InRuns(runs, x) == \E i \in 1..Len(runs) : U32Le(runs[i][1], x) /\ U32Le(x, runs[i][2])

AddToRuns(runs, x) ==
    IF InRuns(runs, x) THEN runs
    ELSE IF runs # <<>> /\ U32Inc(runs[Len(runs)][2]) = x
    THEN [runs EXCEPT ![Len(runs)] = <<runs[Len(runs)][1], x>>]
    ELSE Append(runs, <<x, x>>)

\* A factory just constructed, or one that has served 2^32 - 3 clients over a
\* single tunnel connection (the state 2^32 - 3 AllocAccept steps lead to).
InitAlloc ==
    /\ \/ /\ _sock_id = U32(0, 0)                     \* __init__: self._sock_id = 0
          /\ issued = <<>>
          /\ n_issued = U32(0, 0)
       \/ /\ _sock_id = U32(65535, 65533)
          /\ issued = << <<U32(0, 1), U32(65535, 65533)>> >>
          /\ n_issued = U32(65535, 65533)
    /\ last_id = _sock_id
    /\ dup = FALSE
    /\ n_accepts = 0
    /\ FramerIdle
    /\ SystemIdle
    /\ SocksIdle
    /\ OthersIdle

\* Socks5Protocol.connectionMade: self.sock_id = self.factory.sock_id
AllocAccept ==
    /\ n_accepts < MaxAccepts
    /\ n_accepts' = n_accepts + 1
    /\ _sock_id' = sock_id(_sock_id)
    /\ last_id' = _sock_id'
    /\ dup' = (dup \/ InRuns(issued, _sock_id'))
    /\ issued' = AddToRuns(issued, _sock_id')
    /\ n_issued' = U32Inc(n_issued)
    /\ UNCHANGED <<fvars, xvars, svars, hvars>>

\* SocksDispatcher.tunnelConnected: a new epoch starts, the counter is kept
AllocReconnect ==
    /\ issued # <<>>
    /\ issued' = <<>>
    /\ n_issued' = U32(0, 0)
    /\ dup' = FALSE
    /\ UNCHANGED <<_sock_id, last_id, n_accepts, fvars, xvars, svars, hvars>>

NextAlloc == AllocAccept \/ AllocReconnect

SpecAlloc == InitAlloc /\ [][NextAlloc]_vars

(***************************************************************************)
(* Spec: the local proxy, the remote proxy and the tunnel between them.    *)
(*                                                                         *)
(* On the tunnel a message is a record [type, id, ...]; its bytes are the  *)
(* business of SpecFramer.  A payload is a sequence of tokens, each token  *)
(* standing for the bytes of one chunk: <<"c", client, k>> for the k-th    *)
(* chunk a SOCKS client sent, <<"t", proxy, k>> for the k-th chunk a       *)
(* target sent.                                                            *)
(*                                                                         *)
(* What the event loop (Twisted) guarantees and the handlers rely on:      *)
(*   - a protocol gets connectionLost once, and no dataReceived after it   *)
(*     or after loseConnection / abortConnection was called on it;         *)
(*   - a client connector reports either clientConnectionFailed or, after  *)
(*     connectionMade, clientConnectionLost;                               *)
(*   - an exception escaping dataReceived drops that connection, and       *)
(*     connectionLost is delivered before any other event;                 *)
(*   - write on a transport that is no longer connected is discarded.      *)
(***************************************************************************)
MaxClients == 2
MaxEvents == 2

Hosts == {"10.0.0.1", "example.org"}
Ports == {80}

Put(f, k, v) == [x \in DOMAIN f \cup {k} |-> IF x = k THEN v ELSE f[x]]
Remove(f, k) == [x \in DOMAIN f \ {k} |-> f[x]]
LogOf(f, k) == IF k \in DOMAIN f THEN f[k] ELSE <<>>

\* transport.loseConnection() / transport.abortConnection() on a TCP transport
loseConnection(tcp) == IF tcp = "open" THEN "losing" ELSE tcp
abortConnection(tcp) == IF tcp \in {"open", "losing"} THEN "aborted" ELSE tcp

\* TunnelProtocol.dataReceived with the buffer and the chunk counted in whole
\* messages: the chunk is appended, and if a complete message is buffered the
\* first one is dispatched and removed.  A chunk of no whole message stands
\* for the arrival of a fragment of the next one.
tunnelDataReceived(buf, chunk) ==
    LET b == buf \o chunk IN
    IF b = <<>> THEN [buffer |-> b, out |-> <<>>]
    ELSE [buffer |-> Tail(b), out |-> <<Head(b)>>]

(***************************************************************************)
(* Local side.  The handlers are functions of the dispatcher's state       *)
(*   S = [socks, cl, wire, sent, crecv]                                    *)
(***************************************************************************)
LocalState ==
    [socks |-> l_socks, cl |-> cl, wire |-> wire_lr, sent |-> sent_lr, crecv |-> c_recv]

\* self.transport.write(message) on the tunnel.  While self.transport is
\* None the call raises AttributeError: nothing is written, and as the write
\* is the last statement of each handler that makes it, nothing else is
\* undone; the exception leaves the handler.
L_write(S, msg) ==
    LET S1 == [S EXCEPT !.sent = Put(@, msg.id,
                                     Append(LogOf(@, msg.id), <<msg.type, l_transport>>))]
    IN IF l_transport = 0 THEN S
       ELSE IF l_transport = epoch /\ link = "up"
       THEN [S1 EXCEPT !.wire = Append(@, msg)]
       ELSE S1

\* the connection is closed and the table entry is kept
L_closeSock_KeepEntry(S, sock_id_, abort) ==
    IF sock_id_ \notin DOMAIN S.socks THEN S
    ELSE LET c == S.socks[sock_id_] IN
         [S EXCEPT !.cl[c].tcp = IF abort THEN abortConnection(@) ELSE loseConnection(@)]

\* SocksDispatcher.closeSock
L_closeSock(S, sock_id_, abort) ==
    IF sock_id_ \notin DOMAIN S.socks THEN S                    \* KeyError: logged
    ELSE LET c == S.socks[sock_id_] IN
         [S EXCEPT !.cl[c].tcp = IF abort THEN abortConnection(@) ELSE loseConnection(@),
                   !.socks = Remove(@, sock_id_)]

\* SocksDispatcher.connectRemote, type 1
L_connectRemote(S, c, host, port) ==
    LET id == S.cl[c].sock_id
        S1 == [S EXCEPT !.socks = Put(@, id, c)]
    IN L_write(S1, [type |-> 1, id |-> id, host |-> host, port |-> port])

\* SocksDispatcher.handleConnect, type 2
L_handleConnect(S, msg) ==
    IF msg.code = 0 THEN S ELSE L_closeSock(S, msg.id, TRUE)

\* SocksDispatcher.sendRemote, type 3: the header and the data are two writes
\* of one handler, so they reach the transport back to back
L_sendRemote(S, c, data) ==
    L_write(S, [type |-> 3, id |-> S.cl[c].sock_id, data |-> data])

\* SocksDispatcher.handleRemote, type 4
L_handleRemote(S, msg) ==
    IF msg.id \notin DOMAIN S.socks THEN S                      \* KeyError: logged
    ELSE LET c == S.socks[msg.id] IN
         IF S.cl[c].tcp \in {"open", "losing"}
         THEN [S EXCEPT !.crecv[c] = @ \o msg.data]            \* sock.transport.write(data)
         ELSE S

\* the guard is missing: CLOSE_LOCAL is written for every client that goes away
L_closeRemote_NoGuard(S, c) ==
    LET id == S.cl[c].sock_id IN
    L_write(L_closeSock(S, id, FALSE), [type |-> 5, id |-> id])

\* SocksDispatcher.closeRemote, type 5
L_closeRemote(S, c) ==
    LET id == S.cl[c].sock_id IN
    IF id \notin DOMAIN S.socks THEN S
    ELSE L_write(L_closeSock(S, id, FALSE), [type |-> 5, id |-> id])

\* the client is closed gracefully instead of being aborted
L_handleClose_Graceful(S, msg) == L_closeSock(S, msg.id, FALSE)

\* SocksDispatcher.handleClose, type 6
L_handleClose(S, msg) == L_closeSock(S, msg.id, TRUE)

\* an exception left Socks5Protocol.dataReceived of client c: its transport
\* drops the connection and calls Socks5Protocol.connectionLost at once
S5_raised(S, c) == L_closeRemote([S EXCEPT !.cl[c].tcp = "closed"], c)

\* a message of unknown type closes the stream it names
L_dispatchMessage_UnknownCloses(S, msg) ==
    IF msg.type = 2 THEN L_handleConnect(S, msg)
    ELSE IF msg.type = 4 THEN L_handleRemote(S, msg)
    ELSE L_closeSock(S, msg.id, TRUE)

\* SocksDispatcher.dispatchMessage
L_dispatchMessage(S, msg) ==
    IF msg.type = 2 THEN L_handleConnect(S, msg)
    ELSE IF msg.type = 4 THEN L_handleRemote(S, msg)
    ELSE IF msg.type = 6 THEN L_handleClose(S, msg)
    ELSE S                                                       \* unknown type: logged

RECURSIVE L_dispatchAll(_, _)
L_dispatchAll(S, msgs) ==
    IF msgs = <<>> THEN S ELSE L_dispatchAll(L_dispatchMessage(S, Head(msgs)), Tail(msgs))

\* the new transport is installed and the old streams are kept
L_tunnelConnected_KeepSocks(S) == S

\* SocksDispatcher.tunnelConnected, up to the assignment of self.transport
L_tunnelConnected(S) ==
    IF DOMAIN S.socks # {}
    THEN [S EXCEPT !.socks = <<>>,
                   !.cl = [c \in DOMAIN S.cl |->
                             IF \E id \in DOMAIN S.socks : S.socks[id] = c
                             THEN [S.cl[c] EXCEPT !.tcp = abortConnection(@)]
                             ELSE S.cl[c]]]
    ELSE S

SetLocal(S) ==
    /\ l_socks' = S.socks
    /\ cl' = S.cl
    /\ wire_lr' = S.wire
    /\ sent_lr' = S.sent
    /\ c_recv' = S.crecv

Running == tun # "stopped"

\* Socks5Protocol.connectionMade: a client is accepted
S5_connectionMade ==
    /\ Running
    /\ Len(cl) < MaxClients
    /\ _sock_id' = sock_id(_sock_id)
    /\ cl' = Append(cl, [sock_id |-> _sock_id', state |-> "waitHello", tcp |-> "open"])
    /\ c_sent' = Append(c_sent, <<>>)
    /\ c_recv' = Append(c_recv, <<>>)
    /\ UNCHANGED <<tun, epoch, link, l_transport, l_socks, l_buffer, wire_lr, wire_rl,
                   rvars, sent_lr, sent_rl, n_events, fvars, xvars, issued, n_issued, last_id,
                   dup, n_accepts, hvars>>

\* Socks5Protocol.waitHello on a complete greeting: accepted (a method 0 is
\* offered) or refused (reply 05 FF, loseConnection)
S5_waitHello ==
    \E c \in DOMAIN cl, ok \in BOOLEAN :
        /\ Running
        /\ cl[c].state = "waitHello" /\ cl[c].tcp = "open"
        /\ cl' = IF ok THEN [cl EXCEPT ![c].state = "waitConnectRemote"]
                       ELSE [cl EXCEPT ![c].tcp = loseConnection(@)]
        /\ UNCHANGED <<tun, epoch, link, l_transport, l_socks, l_buffer, wire_lr, wire_rl,
                       rvars, ovars, fvars, xvars, avars, hvars>>

\* Socks5Protocol.waitConnectRemote on a complete request: refused (version,
\* reserved byte, command or address type), or passed to
\* Socks5Protocol.connectRemote.  With dispatcher.transport still None the
\* write in SocksDispatcher.connectRemote raises after the table entry was
\* made; the connection is dropped and connectionLost runs closeRemote, which
\* removes the entry and raises at its own write.
S5_waitConnectRemote ==
    \E c \in DOMAIN cl, req \in Hosts \cup {"refused"}, port \in Ports :
        /\ Running
        /\ cl[c].state = "waitConnectRemote" /\ cl[c].tcp = "open"
        /\ IF req = "refused"
           THEN /\ cl' = [cl EXCEPT ![c].tcp = loseConnection(@)]
                /\ UNCHANGED <<l_socks, wire_lr, sent_lr, c_recv>>
           ELSE LET S == L_connectRemote(LocalState, c, req, port) IN
                IF l_transport = 0
                THEN SetLocal(S5_raised(S, c))
                ELSE SetLocal([S EXCEPT !.cl[c].state = "sendRemote"])
        /\ UNCHANGED <<tun, epoch, link, l_transport, l_buffer, wire_rl,
                       rvars, sent_rl, c_sent, n_events, fvars, xvars, avars, hvars>>

\* Socks5Protocol.sendRemote: a chunk from a client in state sendRemote
S5_sendRemote ==
    \E c \in DOMAIN cl :
        /\ Running
        /\ cl[c].state = "sendRemote" /\ cl[c].tcp = "open"
        /\ n_events < MaxEvents
        /\ LET tok == <<"c", c, Len(c_sent[c]) + 1>> IN
           /\ c_sent' = [c_sent EXCEPT ![c] = Append(@, tok)]
           /\ SetLocal(L_sendRemote(LocalState, c, <<tok>>))
        /\ n_events' = n_events + 1
        /\ UNCHANGED <<tun, epoch, link, l_transport, l_buffer, wire_rl,
                       rvars, sent_rl, fvars, xvars, avars, hvars>>

\* Socks5Protocol.connectionLost: the client went away, or the close asked
\* for by loseConnection / abortConnection has completed
S5_connectionLost ==
    \E c \in DOMAIN cl :
        /\ Running
        /\ cl[c].tcp \in {"open", "losing", "aborted"}
        /\ SetLocal(L_closeRemote([LocalState EXCEPT !.cl[c].tcp = "closed"], c))
        /\ UNCHANGED <<tun, epoch, link, l_transport, l_buffer, wire_rl,
                       rvars, sent_rl, c_sent, n_events, fvars, xvars, avars, hvars>>

\* local TunnelProtocol.dataReceived: a chunk of k whole messages arrives
LT_dataReceived ==
    \E k \in 0..Len(wire_rl) :
        /\ tun = "up" /\ link = "up"
        /\ wire_rl # <<>>
        /\ k > 0 \/ l_buffer # <<>>
        /\ LET r == tunnelDataReceived(l_buffer, Take(wire_rl, k)) IN
           /\ l_buffer' = r.buffer
           /\ SetLocal(L_dispatchAll(LocalState, r.out))
        /\ wire_rl' = Drop(wire_rl, k)
        /\ UNCHANGED <<tun, epoch, link, l_transport,
                       rvars, sent_rl, c_sent, n_events, fvars, xvars, avars, hvars>>

(***************************************************************************)
(* Remote side.  The handlers are functions of                             *)
(*   R = [socks, px, cache, wire, sent]                                    *)
(* where socks[e] is the table of the dispatcher of tunnel connection e.   *)
(* A SockProxy is referenced by its table entry and, while its lookup is   *)
(* pending, by the Deferred's callbacks; RemoteFactory holds it through    *)
(* weakref.proxy only, so a call through the factory on an unreferenced    *)
(* SockProxy raises ReferenceError.                                        *)
(***************************************************************************)
CacheLimit == 1024
Answer == "93.184.216.34"

\* the characters of the host names of the model, as code points
HostChars(host) ==
    CASE host = "10.0.0.1" -> <<49, 48, 46, 48, 46, 48, 46, 49>>
      [] host = "example.org" -> <<101, 120, 97, 109, 112, 108, 101, 46, 111, 114, 103>>
      [] host = "10.0.0.1.example.org" ->
            <<49, 48, 46, 48, 46, 48, 46, 49, 46,
              101, 120, 97, 109, 112, 108, 101, 46, 111, 114, 103>>
      [] host = "1.2.3" -> <<49, 46, 50, 46, 51>>
      [] OTHER -> <<>>

\* [0-9]{k} at position from of t
IsDigits(t, from, k) ==
    Len(t) >= from + k - 1 /\ \A i \in from..(from + k - 1) : t[i] \in 48..57

\* \. at position i of t
IsDot(t, i) == Len(t) >= i /\ t[i] = 46

\* the pattern [0-9]{1,3}\.[0-9]{1,3}\.[0-9]{1,3}\.[0-9]{1,3} matches at the
\* start of t; with whole, the match ends where t ends
IP_pattern(t, whole) ==
    \E a \in 1..3 :
        /\ IsDigits(t, 1, a) /\ IsDot(t, a + 1)
        /\ \E b \in 1..3 :
              /\ IsDigits(t, a + 2, b) /\ IsDot(t, a + b + 2)
              /\ \E c \in 1..3 :
                    /\ IsDigits(t, a + b + 3, c) /\ IsDot(t, a + b + c + 3)
                    /\ \E d \in 1..3 :
                          /\ IsDigits(t, a + b + c + 4, d)
                          /\ whole => Len(t) = a + b + c + d + 3

\* the pattern matches all of t
IP_fullmatch(t) == IP_pattern(t, TRUE)

\* re.match: the pattern matches at the start of t, whatever follows
IP_match(t) == IP_pattern(t, FALSE)

\* _IP.match(host)
IPmatch(host) == IP_match(HostChars(host))

RemoteState ==
    [socks |-> r_socks, px |-> px, cache |-> addr_cache, wire |-> wire_rl, sent |-> sent_rl]

Referenced(R, p) ==
    \/ R.px[p].dns = "pending"
    \/ \E e \in DOMAIN R.socks : \E id \in DOMAIN R.socks[e] : R.socks[e][id] = p

\* Cache.__getitem__ / __contains__
CacheHas(cache, key) == \E i \in DOMAIN cache : cache[i][1] = key
CacheGet(cache, key) == cache[CHOOSE i \in DOMAIN cache : cache[i][1] = key][2]

\* Cache.__setitem__ of a cache whose limit is at least one: the oldest
\* entries are popped while len(self) >= self.limit, then the key is set as
\* OrderedDict sets it (a new key goes last, a present key keeps its place)
RECURSIVE Cache_evict(_, _)
Cache_evict(cache, limit) ==
    IF Len(cache) >= limit /\ cache # <<>> THEN Cache_evict(Tail(cache), limit) ELSE cache

RECURSIVE Cache_evict_Late(_, _)
Cache_evict_Late(cache, limit) ==
    IF Len(cache) > limit /\ cache # <<>> THEN Cache_evict_Late(Tail(cache), limit) ELSE cache

Cache_setitem_EvictLate(cache, limit, key, value) ==
    LET c1 == Cache_evict_Late(cache, limit) IN
    IF CacheHas(c1, key)
    THEN [i \in DOMAIN c1 |-> IF c1[i][1] = key THEN <<key, value>> ELSE c1[i]]
    ELSE Append(c1, <<key, value>>)

Cache_setitem(cache, limit, key, value) ==
    LET c1 == Cache_evict(cache, limit) IN
    IF CacheHas(c1, key)
    THEN [i \in DOMAIN c1 |-> IF c1[i][1] = key THEN <<key, value>> ELSE c1[i]]
    ELSE Append(c1, <<key, value>>)

\* factory.addr_cache = Cache(): the default limit
CacheEvict(cache) == Cache_evict(cache, CacheLimit)

CacheSet(cache, key, value) == Cache_setitem(cache, CacheLimit, key, value)

\* dispatcher.transport.write(message) on the tunnel connection e
R_write(R, e, msg) ==
    LET R1 == [R EXCEPT !.sent = Put(@, msg.id, Append(LogOf(@, msg.id), <<msg.type, e>>))]
    IN IF e = epoch /\ link = "up"
       THEN [R1 EXCEPT !.wire = Append(@, msg)]
       ELSE R1

\* SocksDispatcher.closeSock
R_closeSock(R, e, sock_id_, abort) ==
    IF sock_id_ \notin DOMAIN R.socks[e] THEN R                \* KeyError: logged
    ELSE LET p == R.socks[e][sock_id_]
             R1 == [R EXCEPT !.socks[e] = Remove(@, sock_id_)]
         IN IF R.px[p].transport = None THEN R1
            ELSE [R1 EXCEPT !.px[p].up =
                               IF abort THEN abortConnection(@) ELSE loseConnection(@)]

\* a failure of one stream drops every stream of the tunnel
R_handleConnect_DropsAll(R, e, sock_id_, code) ==
    IF code = 0 THEN R
    ELSE R_write([R EXCEPT !.socks[e] = <<>>], e,
                 [type |-> 2, id |-> sock_id_, code |-> code])

\* SocksDispatcher.handleConnect, type 2
R_handleConnect(R, e, sock_id_, code) ==
    IF code = 0 THEN R
    ELSE R_write(R_closeSock(R, e, sock_id_, TRUE), e,
                 [type |-> 2, id |-> sock_id_, code |-> code])

\* SocksDispatcher.handleRemote, type 4
R_handleRemote(R, e, sock_id_, data) ==
    R_write(R, e, [type |-> 4, id |-> sock_id_, data |-> data])

\* SocksDispatcher.handleClose, type 6
R_handleClose(R, e, sock_id_) ==
    IF sock_id_ \notin DOMAIN R.socks[e] THEN R
    ELSE R_write(R_closeSock(R, e, sock_id_, FALSE), e, [type |-> 6, id |-> sock_id_])

\* SockProxy.connectRemote
SP_connectRemote(R, p) ==
    [R EXCEPT !.px[p].up = "connecting", !.px[p].connects = @ + 1,
              !.px[p].has_connect = TRUE]

\* the stream is dropped without a reply
SP_resolveErr_Silent(R, p) == R_closeSock(R, R.px[p].ep, R.px[p].sock_id, TRUE)

\* SockProxy.resolveErr
SP_resolveErr(R, p) == R_handleConnect(R, R.px[p].ep, R.px[p].sock_id, 1)

\* the connect is initiated as soon as the address is resolved
SP_resolveOk_Eager(R, p, hasA) ==
    IF hasA
    THEN LET R1 == [R EXCEPT !.cache = CacheSet(@, R.px[p].remote_host, Answer),
                             !.px[p].remote_addr = Answer]
         IN IF ~R1.px[p].has_connect THEN SP_connectRemote(R1, p) ELSE R1
    ELSE SP_resolveErr(R, p)

\* SockProxy.resolveOk; hasA: the answer holds an A record
SP_resolveOk(R, p, hasA) ==
    IF hasA
    THEN LET R1 == [R EXCEPT !.cache = CacheSet(@, R.px[p].remote_host, Answer),
                             !.px[p].remote_addr = Answer]
         IN IF ~R1.px[p].has_connect /\ Len(R1.px[p].buffer) > 0
            THEN SP_connectRemote(R1, p)
            ELSE R1
    ELSE SP_resolveErr(R, p)

\* resolveHost without the cache lookup
SP_init_NoCache(cache, e, sock_id_, host, port) ==
    [sock_id |-> sock_id_, ep |-> e, remote_host |-> host, remote_port |-> port,
     buffer |-> <<>>, has_connect |-> FALSE,
     remote_addr |-> IF IPmatch(host) THEN host ELSE None,
     transport |-> None,
     dns |-> IF IPmatch(host) THEN "none" ELSE "pending",
     up |-> "none", connects |-> 0, written |-> <<>>, received |-> <<>>, flushed |-> 0,
     t_sent |-> <<>>]

\* SockProxy.__init__ with resolveHost
SP_init(cache, e, sock_id_, host, port) ==
    LET known == IPmatch(host) \/ CacheHas(cache, host) IN
    [sock_id |-> sock_id_, ep |-> e, remote_host |-> host, remote_port |-> port,
     buffer |-> <<>>, has_connect |-> FALSE,
     remote_addr |-> IF IPmatch(host) THEN host
                     ELSE IF CacheHas(cache, host) THEN CacheGet(cache, host)
                     ELSE None,
     transport |-> None,
     dns |-> IF known THEN "none" ELSE "pending",      \* resolver.lookupAddress(host)
     up |-> "none",                                    \* the upstream TCP connection
     connects |-> 0,                                   \* calls of reactor.connectTCP
     written |-> <<>>,                                 \* bytes written to it
     received |-> <<>>,                                \* DATA_OUT payloads passed to sendRemote
     flushed |-> 0,                                    \* bytes connectOk wrote from the buffer
     t_sent |-> <<>>]                                  \* bytes the target sent

\* SockProxy.isConnected
SP_isConnected(R, p) == R.px[p].transport # None

\* the buffer is written but not emptied
SP_connectOk_KeepBuffer(R, p) ==
    [R EXCEPT !.px[p].written = @ \o R.px[p].buffer,
              !.px[p].flushed = Len(R.px[p].buffer),
              !.px[p].transport = "transport"]

\* the buffer is dropped instead of being written
SP_connectOk_NoFlush(R, p) ==
    [R EXCEPT !.px[p].buffer = <<>>, !.px[p].transport = "transport"]

\* SockProxy.connectOk
SP_connectOk(R, p) ==
    [R EXCEPT !.px[p].written = @ \o R.px[p].buffer,           \* transport.write(self.buffer)
              !.px[p].flushed = Len(R.px[p].buffer),
              !.px[p].buffer = <<>>,
              !.px[p].transport = "transport"]

\* the failure is reported after the stream was closed as if the target had hung up
SP_connectErr_AlsoClose(R, p) ==
    R_handleConnect(R_handleClose(R, R.px[p].ep, R.px[p].sock_id),
                    R.px[p].ep, R.px[p].sock_id, 1)

\* SockProxy.connectErr
SP_connectErr(R, p) == R_handleConnect(R, R.px[p].ep, R.px[p].sock_id, 1)

\* data is put in front of the buffer
SP_sendRemote_Prepend(R, p, data) ==
    LET R0 == [R EXCEPT !.px[p].received = Append(@, data)] IN
    IF R0.px[p].transport # None
    THEN IF R0.px[p].up = "open" THEN [R0 EXCEPT !.px[p].written = @ \o data] ELSE R0
    ELSE LET R1 == [R0 EXCEPT !.px[p].buffer = data \o @] IN
         IF ~R1.px[p].has_connect /\ R1.px[p].remote_addr # None
         THEN SP_connectRemote(R1, p)
         ELSE R1

\* has_connect is not looked at: a connect is initiated whenever data is
\* buffered for a stream whose address is known
SP_sendRemote_NoGuard(R, p, data) ==
    LET R0 == [R EXCEPT !.px[p].received = Append(@, data)] IN
    IF R0.px[p].transport # None
    THEN IF R0.px[p].up = "open" THEN [R0 EXCEPT !.px[p].written = @ \o data] ELSE R0
    ELSE LET R1 == [R0 EXCEPT !.px[p].buffer = @ \o data] IN
         IF R1.px[p].remote_addr # None THEN SP_connectRemote(R1, p) ELSE R1

\* SockProxy.sendRemote
SP_sendRemote(R, p, data) ==
    LET R0 == [R EXCEPT !.px[p].received = Append(@, data)] IN
    IF SP_isConnected(R0, p)                                    \* self.isConnected
    THEN IF R0.px[p].up = "open" THEN [R0 EXCEPT !.px[p].written = @ \o data] ELSE R0
    ELSE LET R1 == [R0 EXCEPT !.px[p].buffer = @ \o data] IN
         IF ~R1.px[p].has_connect /\ R1.px[p].remote_addr # None
         THEN SP_connectRemote(R1, p)
         ELSE R1

\* SocksDispatcher.connectRemote, type 1
R_connectRemote(R, e, msg) ==
    LET p == Len(R.px) + 1 IN
    [R EXCEPT !.px = Append(@, SP_init(R.cache, e, msg.id, msg.host, msg.port)),
              !.socks[e] = Put(@, msg.id, p)]

\* SocksDispatcher.sendRemote, type 3
R_sendRemote(R, e, msg) ==
    IF msg.id \notin DOMAIN R.socks[e] THEN R                   \* KeyError: logged
    ELSE SP_sendRemote(R, R.socks[e][msg.id], msg.data)

\* the close is answered with a CLOSE_REMOTE
R_closeRemote_Echo(R, e, msg) ==
    R_write(R_closeSock(R, e, msg.id, TRUE), e, [type |-> 6, id |-> msg.id])

\* SocksDispatcher.closeRemote, type 5
R_closeRemote(R, e, msg) == R_closeSock(R, e, msg.id, TRUE)

\* SocksDispatcher.dispatchMessage
R_dispatchMessage(R, e, msg) ==
    IF msg.type = 1 THEN R_connectRemote(R, e, msg)
    ELSE IF msg.type = 3 THEN R_sendRemote(R, e, msg)
    ELSE IF msg.type = 5 THEN R_closeRemote(R, e, msg)
    ELSE R                                                       \* unknown type: logged

RECURSIVE R_dispatchAll(_, _, _)
R_dispatchAll(R, e, msgs) ==
    IF msgs = <<>> THEN R
    ELSE R_dispatchAll(R_dispatchMessage(R, e, Head(msgs)), e, Tail(msgs))

\* SocksDispatcher.tunnelClosed
R_tunnelClosed(R, e) ==
    IF DOMAIN R.socks[e] = {} THEN R
    ELSE [R EXCEPT !.socks[e] = <<>>,
                   !.px = [p \in DOMAIN R.px |->
                             IF /\ \E id \in DOMAIN R.socks[e] : R.socks[e][id] = p
                                /\ R.px[p].transport # None
                             THEN [R.px[p] EXCEPT !.up = abortConnection(@)]
                             ELSE R.px[p]]]

SetRemote(R) ==
    /\ r_socks' = R.socks
    /\ px' = R.px
    /\ addr_cache' = R.cache
    /\ wire_rl' = R.wire
    /\ sent_rl' = R.sent

\* remote TunnelProtocol.dataReceived: a chunk of k whole messages arrives
RT_dataReceived ==
    \E k \in 0..Len(wire_lr) :
        /\ link = "up"
        /\ wire_lr # <<>>
        /\ k > 0 \/ r_buffer # <<>>
        /\ LET r == tunnelDataReceived(r_buffer, Take(wire_lr, k)) IN
           /\ r_buffer' = r.buffer
           /\ SetRemote(R_dispatchAll(RemoteState, epoch, r.out))
        /\ wire_lr' = Drop(wire_lr, k)
        /\ UNCHANGED <<tun, epoch, link, l_transport, l_socks, l_buffer, cl,
                       r_alive, sent_lr, c_sent, c_recv, n_events, fvars, xvars, avars, hvars>>

\* the Deferred of resolver.lookupAddress fires: an answer with an A record,
\* an answer without one, or a failure
DNS_result ==
    \E p \in DOMAIN px, outcome \in {"A", "noA", "error"} :
        /\ px[p].dns = "pending"
        /\ LET R0 == [RemoteState EXCEPT !.px[p].dns = "done"] IN
           SetRemote(IF outcome = "error" THEN SP_resolveErr(R0, p)
                     ELSE SP_resolveOk(R0, p, outcome = "A"))
        /\ UNCHANGED <<localOnly, r_alive, r_buffer, n_events, fvars, xvars, avars, hvars>>

\* RemoteProtocol.connectionMade: the upstream connect succeeded.  On an
\* unreferenced SockProxy the call raises and the connection is dropped.
UP_connectionMade ==
    \E p \in DOMAIN px :
        /\ px[p].up = "connecting"
        /\ IF Referenced(RemoteState, p)
           THEN SetRemote(SP_connectOk([RemoteState EXCEPT !.px[p].up = "open"], p))
           ELSE SetRemote([RemoteState EXCEPT !.px[p].up = "closed"])
        /\ UNCHANGED <<localOnly, r_alive, r_buffer, n_events, fvars, xvars, avars, hvars>>

\* RemoteFactory.clientConnectionFailed: the upstream connect failed
UP_clientConnectionFailed ==
    \E p \in DOMAIN px :
        /\ px[p].up = "connecting"
        /\ LET R0 == [RemoteState EXCEPT !.px[p].up = "failed"] IN
           SetRemote(IF Referenced(RemoteState, p) THEN SP_connectErr(R0, p) ELSE R0)
        /\ UNCHANGED <<localOnly, r_alive, r_buffer, n_events, fvars, xvars, avars, hvars>>

\* RemoteProtocol.dataReceived -> SockProxy.recvRemote: a chunk from the target
UP_dataReceived ==
    \E p \in DOMAIN px :
        /\ px[p].up = "open"
        /\ n_events < MaxEvents
        /\ n_events' = n_events + 1
        /\ LET tok == <<"t", p, Len(px[p].t_sent) + 1>>
               R0 == [RemoteState EXCEPT !.px[p].t_sent = Append(@, tok)]
           IN SetRemote(IF Referenced(RemoteState, p)
                        THEN R_handleRemote(R0, px[p].ep, px[p].sock_id, <<tok>>)
                        ELSE [R0 EXCEPT !.px[p].up = "closed"])
        /\ UNCHANGED <<localOnly, r_alive, r_buffer, fvars, xvars, avars, hvars>>

\* RemoteFactory.clientConnectionLost -> SockProxy.connectionClosed: the
\* target hung up, or the close asked for on the upstream has completed
UP_clientConnectionLost ==
    \E p \in DOMAIN px :
        /\ px[p].up \in {"open", "losing", "aborted"}
        /\ LET R0 == [RemoteState EXCEPT !.px[p].up = "closed"] IN
           SetRemote(IF Referenced(RemoteState, p)
                     THEN R_handleClose(R0, px[p].ep, px[p].sock_id)
                     ELSE R0)                                    \* ReferenceError: pass
        /\ UNCHANGED <<localOnly, r_alive, r_buffer, n_events, fvars, xvars, avars, hvars>>

(***************************************************************************)
(* The tunnel                                                              *)
(***************************************************************************)
\* The TLS connection is made.  Local: TunnelProtocol.connectionMade and
\* SocksDispatcher.tunnelConnected.  Remote: TunnelProtocol.connectionMade,
\* which builds a dispatcher with an empty table.
T_connectionMade ==
    /\ tun \in {"connecting", "reconnecting"}
    /\ epoch' = epoch + 1
    /\ tun' = "up"
    /\ link' = "up"
    /\ l_buffer' = <<>>
    /\ LET S == L_tunnelConnected(LocalState) IN
       /\ l_socks' = S.socks
       /\ cl' = S.cl
    /\ l_transport' = epoch'
    /\ wire_lr' = <<>>
    /\ wire_rl' = <<>>
    /\ r_buffer' = <<>>
    /\ r_socks' = Append(r_socks, <<>>)
    /\ r_alive' = Append(r_alive, TRUE)
    /\ UNCHANGED <<px, addr_cache, ovars, fvars, xvars, avars, hvars>>

\* a failed connect is followed by another attempt
T_clientConnectionFailed_Retry ==
    /\ tun \in {"connecting", "reconnecting"}
    /\ tun' = "reconnecting"
    /\ UNCHANGED <<epoch, link, l_transport, l_socks, l_buffer, cl, wire_lr, wire_rl,
                   rvars, ovars, fvars, xvars, avars, hvars>>

\* TunnelFactory.clientConnectionFailed: reactor.stop()
T_clientConnectionFailed ==
    /\ tun \in {"connecting", "reconnecting"}
    /\ tun' = "stopped"
    /\ UNCHANGED <<epoch, link, l_transport, l_socks, l_buffer, cl, wire_lr, wire_rl,
                   rvars, ovars, fvars, xvars, avars, hvars>>

\* the tunnel connection breaks; what was in flight is lost
T_drop ==
    /\ link = "up"
    /\ n_events < MaxEvents
    /\ n_events' = n_events + 1
    /\ link' = "broken"
    /\ wire_lr' = <<>>
    /\ wire_rl' = <<>>
    /\ UNCHANGED <<tun, epoch, l_transport, l_socks, l_buffer, cl,
                   rvars, sent_lr, sent_rl, c_sent, c_recv, fvars, xvars, avars, hvars>>

\* the table is cleared and the clients are aborted as soon as the tunnel is lost
L_tunnelClosed_AbortFirst(S) ==
    [S EXCEPT !.socks = <<>>,
              !.cl = [c \in DOMAIN S.cl |->
                        IF \E id \in DOMAIN S.socks : S.socks[id] = c
                        THEN [S.cl[c] EXCEPT !.tcp = abortConnection(@)]
                        ELSE S.cl[c]]]

\* SocksDispatcher.tunnelClosed: connector.connect(), nothing else
L_tunnelClosed(S) == S

\* TunnelFactory.clientConnectionLost -> SocksDispatcher.tunnelClosed
T_clientConnectionLost ==
    /\ tun = "up" /\ link = "broken"
    /\ tun' = "reconnecting"
    /\ LET S == L_tunnelClosed(LocalState) IN
       /\ l_socks' = S.socks
       /\ cl' = S.cl
    /\ UNCHANGED <<epoch, link, l_transport, l_buffer, wire_lr, wire_rl,
                   rvars, ovars, fvars, xvars, avars, hvars>>

\* remote TunnelProtocol.connectionLost -> SocksDispatcher.tunnelClosed
RT_connectionLost ==
    \E e \in DOMAIN r_alive :
        /\ r_alive[e]
        /\ e < epoch \/ link = "broken"
        /\ r_alive' = [r_alive EXCEPT ![e] = FALSE]
        /\ SetRemote(R_tunnelClosed(RemoteState, e))
        /\ UNCHANGED <<localOnly, r_buffer, n_events, fvars, xvars, avars, hvars>>

Init ==
    /\ tun = "connecting"                 \* SocksDispatcher.__init__: connectTunnel
    /\ epoch = 0 /\ link = "none"
    /\ l_transport = 0                    \* self.transport = None
    /\ l_socks = <<>>                     \* self.socks = {}
    /\ l_buffer = <<>> /\ cl = <<>> /\ wire_lr = <<>> /\ wire_rl = <<>>
    /\ r_socks = <<>> /\ r_alive = <<>> /\ r_buffer = <<>> /\ px = <<>>
    /\ addr_cache = <<>>                  \* factory.addr_cache = Cache()
    /\ sent_lr = <<>> /\ sent_rl = <<>> /\ c_sent = <<>> /\ c_recv = <<>> /\ n_events = 0
    /\ AllocIdle
    /\ FramerIdle
    /\ SocksIdle
    /\ OthersIdle

Next ==
    \/ S5_connectionMade
    \/ S5_waitHello
    \/ S5_waitConnectRemote
    \/ S5_sendRemote
    \/ S5_connectionLost
    \/ LT_dataReceived
    \/ RT_dataReceived
    \/ DNS_result
    \/ UP_connectionMade
    \/ UP_clientConnectionFailed
    \/ UP_dataReceived
    \/ UP_clientConnectionLost
    \/ T_connectionMade
    \/ T_clientConnectionFailed
    \/ T_drop
    \/ T_clientConnectionLost
    \/ RT_connectionLost

Spec == Init /\ [][Next]_vars

\* C1: once every byte of M1..Mn has been delivered, in whatever chunks, the
\* dispatcher has been handed exactly M1..Mn in order and the buffer is empty.
C1_RoundTrip ==
    f_rest = <<>> => (f_out = f_msgs /\ buffer = <<>>)

\* C6, as claimed: within one epoch no id is returned twice, however many
\* clients are accepted.
C6_NeverTwice == dup = FALSE

\* C6, amended: within one epoch no id is returned twice as long as at most
\* 2^32 - 1 clients have been accepted in it; beyond that an id is repeated.
C6_UniqueUpToRange == (dup = FALSE) <=> U32Le(n_issued, U32Max)

C6_Witness == n_issued = U32Max /\ dup = FALSE /\ Len(issued) = 1

\* C7: the first id is 1, each next id is the previous plus 1, the id after
\* 2^32 - 1 is 1, 0 is never returned and every id fits in 32 bits.
C7_IdArithmetic ==
    [][ n_accepts' # n_accepts =>
          /\ last_id' = (IF last_id = U32Max THEN U32(0, 1) ELSE U32Inc(last_id))
          /\ last_id' # U32(0, 0)
          /\ FitsU32(last_id') ]_vars

C7_Witness == last_id = U32(0, 1) /\ n_accepts = 3

(***************************************************************************)
(* Claims about Spec                                                       *)
(***************************************************************************)
HasEntry(log, e) == \E i \in DOMAIN log : log[i] = e

\* C2: the bytes a target stream received before its upstream TCP is up are
\* held in its buffer in arrival order, connectOk writes them first, and every
\* later DATA_OUT payload is written after them in order.
C2_PreConnectBuffering ==
    \A p \in DOMAIN px :
        IF px[p].transport = None
        THEN px[p].written = <<>> /\ px[p].buffer = Concat(px[p].received)
        ELSE /\ px[p].buffer = <<>>
             /\ IsPrefix(px[p].written, Concat(px[p].received))
             /\ px[p].flushed <= Len(px[p].written)
             /\ px[p].up = "open" => px[p].written = Concat(px[p].received)

C2_Witness ==
    \E p \in DOMAIN px :
        px[p].up = "open" /\ px[p].dns = "done" /\ px[p].flushed = 2

\* C3: on one tunnel connection, after the local side wrote CLOSE_LOCAL for an
\* id it writes nothing more for that id, and after the remote side wrote
\* CLOSE_REMOTE for an id it writes nothing more for that id.
C3_CloseIsTerminal ==
    /\ \A id \in DOMAIN sent_lr : \A i, j \in DOMAIN sent_lr[id] :
           (i < j /\ sent_lr[id][i][1] = 5) => sent_lr[id][j][2] # sent_lr[id][i][2]
    /\ \A id \in DOMAIN sent_rl : \A i, j \in DOMAIN sent_rl[id] :
           (i < j /\ sent_rl[id][i][1] = 6) => sent_rl[id][j][2] # sent_rl[id][i][2]

C3_Witness ==
    \E id \in DOMAIN sent_lr \cap DOMAIN sent_rl :
        /\ sent_lr[id][Len(sent_lr[id])][1] = 5
        /\ sent_rl[id][Len(sent_rl[id])][1] = 6
        /\ Len(sent_rl[id]) >= 2

\* C4: the first message the local side writes for an id is CONNECT; nothing
\* is written for a client that left or was refused during the handshake.
C4_ConnectFirst ==
    /\ \A id \in DOMAIN sent_lr : sent_lr[id][1][1] = 1
    /\ \A c \in DOMAIN cl :
           cl[c].state # "sendRemote" => cl[c].sock_id \notin DOMAIN sent_lr

C4_Witness ==
    /\ \E c \in DOMAIN cl : cl[c].state = "waitConnectRemote" /\ cl[c].tcp = "closed"
    /\ \E id \in DOMAIN sent_lr : Len(sent_lr[id]) = 3

C8_AbortThenReconnect ==
    [][ (tun = "up" /\ tun' = "reconnecting") =>
          /\ l_socks' = <<>>
          /\ \A id \in DOMAIN l_socks : cl'[l_socks[id]].tcp = "aborted" ]_vars

\* C8, amended: when the tunnel is lost the reconnect is started at once and
\* the table and the clients are left as they are; the clients in the table
\* are aborted and the table is cleared when the new connection is made,
\* before the new transport is installed.
C8_ReconnectThenAbort ==
    /\ [][ (tun = "up" /\ tun' = "reconnecting") =>
             (l_socks' = l_socks /\ cl' = cl /\ l_transport' = l_transport) ]_vars
    /\ [][ epoch' # epoch =>
             /\ l_socks' = <<>>
             /\ \A id \in DOMAIN l_socks : cl'[l_socks[id]].tcp = "aborted"
             /\ l_transport' = epoch' ]_vars

C8_Witness ==
    /\ tun = "reconnecting"
    /\ \E id \in DOMAIN l_socks :
           cl[l_socks[id]].tcp = "open" /\ HasEntry(LogOf(sent_lr, id), <<3, l_transport>>)

\* C9: a stream is in the table only if its CONNECT was written to the
\* transport the dispatcher now holds, the client of every stream of an
\* earlier tunnel is aborted or gone, and DATA_OUT and CLOSE_LOCAL are only
\* written to the tunnel connection that carried the stream's CONNECT.
C9_NoStreamSurvivesReconnect ==
    /\ \A id \in DOMAIN l_socks : HasEntry(LogOf(sent_lr, id), <<1, l_transport>>)
    /\ \A c \in DOMAIN cl :
           (\E e \in 1..(l_transport - 1) : HasEntry(LogOf(sent_lr, cl[c].sock_id), <<1, e>>))
               => cl[c].tcp \in {"aborted", "closed"}
    /\ \A id \in DOMAIN sent_lr : \A i \in DOMAIN sent_lr[id] :
           sent_lr[id][i][1] \in {3, 5} =>
               \E j \in 1..(i - 1) : sent_lr[id][j] = <<1, sent_lr[id][i][2]>>

C9_Witness ==
    /\ l_transport = 2
    /\ \E c \in DOMAIN cl :
           cl[c].tcp = "aborted" /\ HasEntry(LogOf(sent_lr, cl[c].sock_id), <<1, 1>>)
    /\ \E id \in DOMAIN sent_lr : HasEntry(sent_lr[id], <<3, 2>>)

\* C10: once a tunnel has been established the local process never stops
\* because of a tunnel failure: it only stops when the very first connect fails.
C10_NeverStopsAfterFirstTunnel == tun = "stopped" => epoch = 0

\* the target streams in the table of some tunnel connection
InTable(p) == \E id \in DOMAIN r_socks[px[p].ep] : r_socks[px[p].ep][id] = p

\* C11: once the remote's tunnel connection is lost its table is empty and no
\* upstream connection of a stream of that tunnel is open or still being made.
C11_TunnelCloseAbortsAll ==
    \A e \in DOMAIN r_alive :
        ~r_alive[e] =>
            /\ r_socks[e] = <<>>
            /\ \A p \in DOMAIN px :
                   px[p].ep = e => px[p].up \notin {"open", "connecting"}

\* C12, as claimed: for every stream in the remote table, the upstream handle
\* is present exactly when the stream is connected and exactly when its
\* pre-connect buffer is empty.
C12_ThreeWayEquivalence ==
    \A p \in DOMAIN px :
        InTable(p) =>
            /\ (px[p].transport # None) <=> SP_isConnected(RemoteState, p)
            /\ SP_isConnected(RemoteState, p) <=> (px[p].buffer = <<>>)

\* C12, amended: for every stream in the remote table, the upstream handle is
\* present exactly when the stream is connected, and a connected stream has
\* an empty pre-connect buffer; a stream that is not connected has an empty
\* buffer exactly as long as no DATA_OUT has arrived for it.
C12_ConnectedImpliesEmpty ==
    \A p \in DOMAIN px :
        InTable(p) =>
            /\ (px[p].transport # None) <=> SP_isConnected(RemoteState, p)
            /\ SP_isConnected(RemoteState, p) => px[p].buffer = <<>>
            /\ ~SP_isConnected(RemoteState, p) =>
                   ((px[p].buffer = <<>>) <=> (px[p].received = <<>>))

C12_Witness ==
    \E p, q \in DOMAIN px :
        /\ InTable(p) /\ InTable(q)
        /\ SP_isConnected(RemoteState, p) /\ px[p].flushed > 0 /\ px[p].buffer = <<>>
        /\ ~SP_isConnected(RemoteState, q) /\ px[q].buffer = <<>>

\* C13: a DNS result or an upstream connect completion that fires for a
\* stream no longer in the table writes nothing to the tunnel, starts no
\* upstream connect and leaves the table as it is.
C13_LateCallbacksAreNoOps ==
    [][ \A p \in DOMAIN px :
          ( /\ ~InTable(p)
            /\ \/ px[p].dns = "pending" /\ px'[p].dns = "done"
               \/ px[p].up = "connecting" /\ px'[p].up # "connecting" )
          => /\ sent_rl' = sent_rl
             /\ wire_rl' = wire_rl
             /\ r_socks' = r_socks
             /\ px'[p].up = "connecting" => px[p].up = "connecting" ]_vars

\* the CONNECT_REPLY messages written so far for the id of p on its tunnel
Replies(p) ==
    Cardinality({ i \in DOMAIN LogOf(sent_rl, px[p].sock_id) :
                    LogOf(sent_rl, px[p].sock_id)[i] = <<2, px[p].ep>> })

\* a failure of the stream p is reported: one CONNECT_REPLY with code 1 is
\* written on its tunnel, the stream leaves the table, the cache is kept
ReportsFailure(p) ==
    /\ sent_rl' = Put(sent_rl, px[p].sock_id,
                      Append(LogOf(sent_rl, px[p].sock_id), <<2, px[p].ep>>))
    /\ (px[p].ep = epoch /\ link = "up") =>
           wire_rl' = Append(wire_rl, [type |-> 2, id |-> px[p].sock_id, code |-> 1])
    /\ ~(InTable(p))'
    /\ addr_cache' = addr_cache

\* C14: a DNS failure (error or no A record) or an upstream connect failure
\* of a stream in the table writes exactly one CONNECT_REPLY with code 1 for
\* its id, removes the stream and leaves the DNS cache as it is; a successful
\* upstream connect writes nothing to the tunnel.
C14_FailureReporting ==
    /\ [][ \A p \in DOMAIN px :
             InTable(p) =>
               /\ (px[p].dns = "pending" /\ px'[p].dns = "done" /\ px'[p].remote_addr = None)
                     => ReportsFailure(p)
               /\ (px[p].up = "connecting" /\ px'[p].up = "failed") => ReportsFailure(p)
               /\ (px[p].up = "connecting" /\ px'[p].up = "open")
                     => (sent_rl' = sent_rl /\ wire_rl' = wire_rl) ]_vars
    /\ [](\A p \in DOMAIN px : Replies(p) <= 1)
    /\ [](\A p \in DOMAIN px : px[p].up = "open" => Replies(p) = 0)

C14_Witness ==
    \E p, q \in DOMAIN px :
        /\ px[p].up = "failed" /\ Replies(p) = 1 /\ ~InTable(p)
        /\ px[q].dns = "done" /\ px[q].remote_addr = None /\ Replies(q) = 1 /\ ~InTable(q)
        /\ px[p].ep = epoch /\ px[q].ep = epoch
        /\ addr_cache = <<>>

\* a step of the local TunnelProtocol.dataReceived that dispatches a message,
\* and the message it dispatches
LT_dispatches ==
    /\ tun = "up" /\ link = "up" /\ link' = "up"
    /\ Len(l_buffer' \o wire_rl') + 1 = Len(l_buffer \o wire_rl)
LT_message == Head(l_buffer \o wire_rl)

\* the step appends a CLOSE_LOCAL to the log of the id
WritesCloseLocal(id) ==
    /\ Len(LogOf(sent_lr', id)) > Len(LogOf(sent_lr, id))
    /\ LogOf(sent_lr', id)[Len(LogOf(sent_lr', id))][1] = 5

\* C15: a CONNECT_REPLY with nonzero code or a CLOSE_REMOTE for an id in the
\* local table aborts that client and removes the id, and no CLOSE_LOCAL is
\* written for it, then or later; a CONNECT_REPLY with code 0 changes nothing.
C15_RemoteTeardown ==
    /\ [][ LT_dispatches =>
             LET m == LT_message IN
             ( /\ m.id \in DOMAIN l_socks
               /\ m.type = 6 \/ (m.type = 2 /\ m.code # 0) )
             => /\ cl'[l_socks[m.id]].tcp = "aborted"
                /\ \A c \in DOMAIN cl : c # l_socks[m.id] => cl'[c] = cl[c]
                /\ l_socks' = Remove(l_socks, m.id)
                /\ sent_lr' = sent_lr /\ wire_lr' = wire_lr ]_vars
    /\ [][ \A c \in DOMAIN cl :
             WritesCloseLocal(cl[c].sock_id) => cl[c].tcp = "open" ]_vars
    /\ [](\A id \in DOMAIN sent_lr \cup DOMAIN l_socks \cup {U32(0, 1)} :
             L_handleConnect(LocalState, [type |-> 2, id |-> id, code |-> 0]) = LocalState)

C15_Witness ==
    \E c, d \in DOMAIN cl :
        /\ cl[c].tcp \in {"aborted", "closed"} /\ cl[d].tcp \in {"aborted", "closed"}
        /\ l_transport = 1 /\ link = "up" /\ wire_rl = <<>> /\ l_buffer = <<>>
        /\ HasEntry(LogOf(sent_rl, cl[c].sock_id), <<6, 1>>)
        /\ HasEntry(LogOf(sent_rl, cl[d].sock_id), <<2, 1>>)
        /\ ~HasEntry(LogOf(sent_lr, cl[c].sock_id), <<5, 1>>)
        /\ ~HasEntry(LogOf(sent_lr, cl[d].sock_id), <<5, 1>>)
        /\ l_socks = <<>>

\* the ids in use on either side and one that was never issued
SomeIds ==
    { cl[c].sock_id : c \in DOMAIN cl } \cup { px[p].sock_id : p \in DOMAIN px }
        \cup { U32(0, 9) }

\* C16: dispatching a message of unknown type, or a message for an id that is
\* not in the table, returns the dispatcher's state unchanged on either side:
\* same table, same streams, nothing written to the tunnel, to a client or to
\* a target.
C16_UnknownIsDiscarded ==
    \A id \in SomeIds :
        /\ \A t \in {0, 1, 3, 5, 7, 255} :
               L_dispatchMessage(LocalState, [type |-> t, id |-> id]) = LocalState
        /\ id \notin DOMAIN l_socks =>
               \A m \in { [type |-> 4, id |-> id, data |-> << <<"t", 1, 1>> >>],
                           [type |-> 2, id |-> id, code |-> 1],
                           [type |-> 6, id |-> id] } :
                   L_dispatchMessage(LocalState, m) = LocalState
        /\ \A e \in DOMAIN r_socks :
               /\ \A t \in {0, 2, 4, 6, 7, 255} :
                      R_dispatchMessage(RemoteState, e, [type |-> t, id |-> id]) = RemoteState
               /\ id \notin DOMAIN r_socks[e] =>
                      \A m \in { [type |-> 3, id |-> id, data |-> << <<"c", 1, 1>> >>],
                                  [type |-> 5, id |-> id] } :
                          R_dispatchMessage(RemoteState, e, m) = RemoteState

\* a DATA_IN written by the remote on the current tunnel connection has been
\* received by the local side after its client had gone, and was dropped
C16_Witness ==
    \E c \in DOMAIN cl :
        /\ epoch = 1 /\ tun = "up" /\ link = "up"
        /\ wire_rl = <<>> /\ l_buffer = <<>>
        /\ HasEntry(LogOf(sent_rl, cl[c].sock_id), <<4, 1>>)
        /\ c_recv[c] = <<>>
        /\ cl[c].sock_id \notin DOMAIN l_socks

\* the step leaves the tunnel and every target stream other than p alone
OnlyTarget(p) ==
    /\ tun' = tun /\ link' = link /\ epoch' = epoch /\ r_alive' = r_alive
    /\ l_transport' = l_transport
    /\ \A q \in DOMAIN px : q # p => px'[q] = px[q]
    /\ \A e \in DOMAIN r_socks : \A id \in DOMAIN r_socks[e] :
           r_socks[e][id] # p =>
               (id \in DOMAIN r_socks'[e] /\ r_socks'[e][id] = r_socks[e][id])
    /\ cl' = cl /\ l_socks' = l_socks

\* the step leaves the tunnel and every client stream other than c alone
OnlyClient(c) ==
    /\ tun' = tun /\ link' = link /\ epoch' = epoch /\ r_alive' = r_alive
    /\ l_transport' = l_transport
    /\ \A d \in DOMAIN cl : d # c => cl'[d] = cl[d]
    /\ \A id \in DOMAIN l_socks :
           l_socks[id] # c => (id \in DOMAIN l_socks' /\ l_socks'[id] = l_socks[id])
    /\ px' = px /\ r_socks' = r_socks

\* C17: a DNS failure, an upstream connect failure, an upstream close, a
\* client close or a refused SOCKS handshake of one stream leaves the tunnel
\* up and the table entry, buffer and connection of every other stream as
\* they were.
C17_FailuresStayLocal ==
    /\ [][ \A p \in DOMAIN px :
             ( \/ px[p].dns = "pending" /\ px'[p].dns = "done" /\ px'[p].remote_addr = None
               \/ px[p].up = "connecting" /\ px'[p].up = "failed"
               \/ px[p].up \in {"open", "losing", "aborted"} /\ px'[p].up = "closed" )
             => OnlyTarget(p) ]_vars
    /\ [][ \A c \in DOMAIN cl :
             ( \/ cl[c].tcp # "closed" /\ cl'[c].tcp = "closed"
               \/ cl[c].state # "sendRemote" /\ cl[c].tcp = "open" /\ cl'[c].tcp = "losing" )
             => OnlyClient(c) ]_vars

C17_Witness ==
    \E p, q \in DOMAIN px : \E c, d \in DOMAIN cl :
        /\ p # q /\ c # d
        /\ px[p].up = "failed" /\ ~InTable(p)
        /\ InTable(q) /\ px[q].buffer # <<>>
        /\ cl[c].tcp = "closed" /\ (cl[d].sock_id \in DOMAIN l_socks /\ cl[d].tcp = "open")
        /\ tun = "up" /\ link = "up"

(***************************************************************************)
(* SpecSocks: Socks5Protocol at byte level.  One client is accepted while  *)
(* the tunnel is up and sends the bytes s5_all, which the transport        *)
(* delivers in chunks of any size; the client may hang up at any time.     *)
(* P = [state, tcp, buffer, out] is the protocol instance and the bytes    *)
(* written to its transport.                                               *)
(***************************************************************************)
S5P == [state |-> cl[1].state, tcp |-> cl[1].tcp, buffer |-> s5_buffer, out |-> s5_out]

\* Socks5Protocol.sendHelloReply: struct.pack('!BB', 5, rep)
sendHelloReply(rep) == <<5, rep>>

\* the last two bytes of the reply are left out
sendConnectReply_Short(rep) == <<5, rep, 0, 1, 0, 0, 0, 0>>

\* Socks5Protocol.sendConnectReply: struct.pack('!BBBBBBBBH', 5, rep, 0, 1, 0, 0, 0, 0, 0)
sendConnectReply(rep) == <<5, rep, 0, 1, 0, 0, 0, 0>> \o <<0 \div 256, 0 % 256>>

\* only the first offered method is looked at
waitHello_FirstMethodOnly(P, data) ==
    LET b == P.buffer \o data
        refuse == [P EXCEPT !.buffer = b, !.out = @ \o sendHelloReply(255),
                            !.tcp = loseConnection(@)]
    IN IF Len(b) < 2 THEN [P EXCEPT !.buffer = b]
       ELSE IF b[1] # 5 THEN refuse
       ELSE IF b[2] < 1 THEN refuse
       ELSE IF Len(b) < b[2] + 2 THEN [P EXCEPT !.buffer = b]
       ELSE IF b[3] = 0
            THEN [P EXCEPT !.buffer = <<>>, !.state = "waitConnectRemote",
                           !.out = @ \o sendHelloReply(0)]
            ELSE refuse

\* Socks5Protocol.waitHello
waitHello(P, data) ==
    LET b == P.buffer \o data                                  \* self.buffer += data
        refuse == [P EXCEPT !.buffer = b, !.out = @ \o sendHelloReply(255),
                            !.tcp = loseConnection(@)]
    IN IF Len(b) < 2 THEN [P EXCEPT !.buffer = b]
       ELSE IF b[1] # 5 THEN refuse                             \* version != 5
       ELSE IF b[2] < 1 THEN refuse                             \* nmethods < 1
       ELSE IF Len(b) < b[2] + 2 THEN [P EXCEPT !.buffer = b]
       ELSE IF \E i \in 3..(2 + b[2]) : b[i] = 0              \* for method in buffer[2:2+nmethods]
            THEN [P EXCEPT !.buffer = <<>>, !.state = "waitConnectRemote",
                           !.out = @ \o sendHelloReply(0)]
            ELSE refuse

\* str(n).encode() for a byte value
DecBytes(n) ==
    IF n < 10 THEN <<48 + n>>
    ELSE IF n < 100 THEN <<48 + (n \div 10), 48 + (n % 10)>>
    ELSE <<48 + (n \div 100), 48 + ((n \div 10) % 10), 48 + (n % 10)>>

\* f'{ip1}.{ip2}.{ip3}.{ip4}'.encode('utf-8')
DottedQuad(b) ==
    DecBytes(b[1]) \o <<46>> \o DecBytes(b[2]) \o <<46>> \o DecBytes(b[3]) \o <<46>>
        \o DecBytes(b[4])

\* struct.unpack('!H', ...)
unpack_H(b) == b[1] * 256 + b[2]

\* the reserved byte is not looked at
waitConnectRemote_NoReservedCheck(P, data) ==
    LET b == P.buffer \o data
        P1 == [P EXCEPT !.buffer = b]
        wait == [p |-> P1, connect |-> None]
        close == [p |-> [P1 EXCEPT !.tcp = loseConnection(@)], connect |-> None]
        refuse(rep) == [p |-> [P1 EXCEPT !.out = @ \o sendConnectReply(rep),
                                         !.tcp = loseConnection(@)],
                        connect |-> None]
    IN IF Len(b) < 4 THEN wait
       ELSE IF b[1] # 5 THEN close
       ELSE IF b[2] # 1 THEN refuse(7)
       ELSE IF b[4] \notin {1, 3} THEN refuse(8)
       ELSE IF b[4] = 1
            THEN IF Len(b) < 10 THEN wait
                 ELSE [p |-> P1, connect |-> <<DottedQuad(SubSeq(b, 5, 8)),
                                               unpack_H(SubSeq(b, 9, 10))>>]
            ELSE IF Len(b) < 5 THEN wait
                 ELSE IF Len(b) < 5 + b[5] + 2 THEN wait
                 ELSE [p |-> P1, connect |-> <<SubSeq(b, 6, 5 + b[5]),
                                               unpack_H(SubSeq(b, 6 + b[5], 7 + b[5]))>>]

\* Socks5Protocol.waitConnectRemote; connect: the (host, port) passed to
\* Socks5Protocol.connectRemote, or None
waitConnectRemote(P, data) ==
    LET b == P.buffer \o data                                  \* self.buffer += data
        P1 == [P EXCEPT !.buffer = b]
        wait == [p |-> P1, connect |-> None]
        close == [p |-> [P1 EXCEPT !.tcp = loseConnection(@)], connect |-> None]
        refuse(rep) == [p |-> [P1 EXCEPT !.out = @ \o sendConnectReply(rep),
                                         !.tcp = loseConnection(@)],
                        connect |-> None]
    IN IF Len(b) < 4 THEN wait
       ELSE IF b[1] # 5 THEN close                              \* version != 5
       ELSE IF b[3] # 0 THEN close                              \* reserved != 0
       ELSE IF b[2] # 1 THEN refuse(7)                          \* command != 1
       ELSE IF b[4] \notin {1, 3} THEN refuse(8)               \* atyp not in (1, 3)
       ELSE IF b[4] = 1
            THEN IF Len(b) < 10 THEN wait
                 ELSE [p |-> P1, connect |-> <<DottedQuad(SubSeq(b, 5, 8)),
                                               unpack_H(SubSeq(b, 9, 10))>>]
            ELSE IF Len(b) < 5 THEN wait
                 ELSE IF Len(b) < 5 + b[5] + 2 THEN wait
                 ELSE [p |-> P1, connect |-> <<SubSeq(b, 6, 5 + b[5]),
                                               unpack_H(SubSeq(b, 6 + b[5], 7 + b[5]))>>]

\* what a client may send: a greeting, a request, two bytes of payload
Greetings ==
    { <<5, 1, 0>>, <<5, 2, 2, 0>>, <<5, 1, 2>>, <<5, 2, 1, 2>>, <<4, 1, 0>>, <<5, 0>> }

Requests ==
    { <<5, 1, 0, 1, 10, 0, 0, 1, 0, 80>>,                \* CONNECT 10.0.0.1:80
      <<5, 1, 0, 3, 2, 97, 98, 1, 187>>,                 \* CONNECT "ab":443
      <<4, 1, 0, 1, 10, 0, 0, 1, 0, 80>>,                \* version 4
      <<5, 1, 1, 1, 10, 0, 0, 1, 0, 80>>,                \* reserved byte 1
      <<4, 2, 0, 4, 10, 0, 0, 1, 0, 80>>,                \* version 4, BIND, IPv6
      <<5, 2, 0, 1, 10, 0, 0, 1, 0, 80>>,                \* BIND
      <<5, 3, 0, 4, 10, 0, 0, 1, 0, 80>>,                \* UDP ASSOCIATE, IPv6
      <<5, 1, 0, 4, 10, 0, 0, 1, 0, 80>> }               \* CONNECT, IPv6

Payload == <<104, 105>>

SocksInputs == { g \o r \o Payload : g \in Greetings, r \in Requests }

InitSocks ==
    /\ s5_all \in SocksInputs
    /\ s5_in = s5_all
    /\ s5_buffer = <<>>                   \* connectionMade: self.buffer = b''
    /\ s5_out = <<>>
    /\ tun = "up" /\ epoch = 1 /\ link = "up"
    /\ l_transport = 1                    \* tunnelConnected has run
    /\ l_socks = <<>> /\ l_buffer = <<>> /\ wire_lr = <<>> /\ wire_rl = <<>>
    /\ _sock_id = U32(0, 1)               \* connectionMade: self.factory.sock_id
    /\ cl = << [sock_id |-> U32(0, 1), state |-> "waitHello", tcp |-> "open"] >>
    /\ c_sent = << <<>> >> /\ c_recv = << <<>> >>
    /\ r_socks = << <<>> >> /\ r_alive = << TRUE >> /\ r_buffer = <<>>
    /\ px = <<>> /\ addr_cache = <<>>
    /\ sent_lr = <<>> /\ sent_rl = <<>> /\ n_events = 0
    /\ issued = <<>> /\ n_issued = U32(0, 0) /\ last_id = U32(0, 0)
    /\ dup = FALSE /\ n_accepts = 0
    /\ FramerIdle
    /\ OthersIdle

\* Socks5Protocol.dataReceived in state waitHello
Socks_waitHello ==
    \E k \in 1..Len(s5_in) :
        /\ cl[1].state = "waitHello" /\ cl[1].tcp = "open"
        /\ LET P == waitHello(S5P, Take(s5_in, k)) IN
           /\ cl' = [cl EXCEPT ![1].state = P.state, ![1].tcp = P.tcp]
           /\ s5_buffer' = P.buffer
           /\ s5_out' = P.out
        /\ s5_in' = Drop(s5_in, k)
        /\ UNCHANGED <<tun, epoch, link, l_transport, l_socks, l_buffer, wire_lr, wire_rl,
                       rvars, ovars, fvars, xvars, avars, s5_all>>

\* Socks5Protocol.dataReceived in state waitConnectRemote; on a complete
\* request Socks5Protocol.connectRemote: dispatcher.connectRemote,
\* sendConnectReply(0), the buffer is emptied, the state becomes sendRemote
Socks_waitConnectRemote ==
    \E k \in 1..Len(s5_in) :
        /\ cl[1].state = "waitConnectRemote" /\ cl[1].tcp = "open"
        /\ LET r == waitConnectRemote(S5P, Take(s5_in, k)) IN
           IF r.connect = None
           THEN /\ cl' = [cl EXCEPT ![1].tcp = r.p.tcp]
                /\ s5_buffer' = r.p.buffer
                /\ s5_out' = r.p.out
                /\ UNCHANGED <<l_socks, wire_lr, sent_lr, c_recv>>
           ELSE /\ LET S == L_connectRemote(LocalState, 1, r.connect[1], r.connect[2]) IN
                   SetLocal([S EXCEPT !.cl[1].state = "sendRemote"])
                /\ s5_out' = s5_out \o sendConnectReply(0)
                /\ s5_buffer' = <<>>
        /\ s5_in' = Drop(s5_in, k)
        /\ UNCHANGED <<tun, epoch, link, l_transport, l_buffer, wire_rl,
                       rvars, sent_rl, c_sent, n_events, fvars, xvars, avars, s5_all>>

\* Socks5Protocol.dataReceived in state sendRemote
Socks_sendRemote ==
    \E k \in 1..Len(s5_in) :
        /\ cl[1].state = "sendRemote" /\ cl[1].tcp = "open"
        /\ SetLocal(L_sendRemote(LocalState, 1, Take(s5_in, k)))
        /\ c_sent' = [c_sent EXCEPT ![1] = @ \o Take(s5_in, k)]
        /\ s5_in' = Drop(s5_in, k)
        /\ UNCHANGED <<tun, epoch, link, l_transport, l_buffer, wire_rl,
                       rvars, sent_rl, n_events, fvars, xvars, avars, s5_all, s5_buffer, s5_out>>

\* Socks5Protocol.connectionLost: the client hung up, or the close asked for
\* by loseConnection has completed
Socks_connectionLost ==
    /\ cl[1].tcp \in {"open", "losing"}
    /\ SetLocal(L_closeRemote([LocalState EXCEPT !.cl[1].tcp = "closed"], 1))
    /\ UNCHANGED <<tun, epoch, link, l_transport, l_buffer, wire_rl,
                   rvars, sent_rl, c_sent, n_events, fvars, xvars, avars, hvars>>

NextSocks ==
    \/ Socks_waitHello
    \/ Socks_waitConnectRemote
    \/ Socks_sendRemote
    \/ Socks_connectionLost

SpecSocks == InitSocks /\ [][NextSocks]_vars

(***************************************************************************)
(* Claims about SpecSocks                                                  *)
(***************************************************************************)
\* the bytes delivered to the protocol so far
Got == Take(s5_all, Len(s5_all) - Len(s5_in))

NoTunnelTraffic == sent_lr = <<>> /\ wire_lr = <<>> /\ l_socks = <<>>

\* C18: as soon as the greeting is decided (version not 5, no methods, or all
\* offered methods received) the reply is 05 00 and the state waitConnectRemote
\* if and only if version is 5 and some offered method is 0; otherwise the
\* reply is 05 FF, the client is closed and nothing goes to the tunnel.
\* Before that nothing is replied.
C18_Greeting ==
    LET decided == /\ Len(Got) >= 2
                   /\ Got[1] # 5 \/ Got[2] = 0 \/ Len(Got) >= 2 + Got[2]
        accept == /\ Got[1] = 5 /\ Got[2] >= 1
                  /\ \E i \in 3..(2 + Got[2]) : Got[i] = 0
    IN IF ~decided
       THEN s5_out = <<>> /\ cl[1].state = "waitHello" /\ NoTunnelTraffic
       ELSE IF accept
       THEN SubSeq(s5_out, 1, 2) = <<5, 0>> /\ cl[1].state # "waitHello"
       ELSE /\ s5_out = <<5, 255>>
            /\ cl[1].state = "waitHello"
            /\ cl[1].tcp \in {"losing", "closed"}
            /\ NoTunnelTraffic

C18_Witness ==
    /\ SubSeq(s5_all, 1, 4) = <<5, 2, 2, 0>>
    /\ cl[1].state = "waitConnectRemote" /\ cl[1].tcp = "open"
    /\ s5_out = <<5, 0>> /\ s5_buffer = <<>>

\* C19: in state waitConnectRemote, once four bytes of the request are in:
\* version not 5 or reserved not 0 closes the client with no reply; else a
\* command other than 1 is answered with code 07 and closed; else an address
\* type other than 1 and 3 is answered with code 08 and closed; in all these
\* cases nothing is written to the tunnel and the id is not in the table.
C19_RequestRejection ==
    cl[1].state = "waitConnectRemote" =>
        /\ NoTunnelTraffic
        /\ LET b == s5_buffer IN
           IF Len(b) < 4 THEN s5_out = <<5, 0>>
           ELSE IF b[1] # 5 \/ b[3] # 0
           THEN s5_out = <<5, 0>> /\ cl[1].tcp \in {"losing", "closed"}
           ELSE IF b[2] # 1
           THEN /\ s5_out = <<5, 0>> \o <<5, 7, 0, 1, 0, 0, 0, 0, 0, 0>>
                /\ cl[1].tcp \in {"losing", "closed"}
           ELSE IF b[4] \notin {1, 3}
           THEN /\ s5_out = <<5, 0>> \o <<5, 8, 0, 1, 0, 0, 0, 0, 0, 0>>
                /\ cl[1].tcp \in {"losing", "closed"}
           ELSE s5_out = <<5, 0>>

C19_Witness ==
    /\ cl[1].state = "waitConnectRemote" /\ cl[1].tcp = "closed"
    /\ Len(s5_buffer) >= 4 /\ SubSeq(s5_buffer, 1, 4) = <<5, 3, 0, 4>>
    /\ s5_out = <<5, 0, 5, 7, 0, 1, 0, 0, 0, 0, 0, 0>>
    /\ NoTunnelTraffic

\* a complete well-formed CONNECT request
ValidRequest(b) ==
    /\ Len(b) >= 4 /\ b[1] = 5 /\ b[2] = 1 /\ b[3] = 0
    /\ \/ b[4] = 1 /\ Len(b) >= 10
       \/ b[4] = 3 /\ Len(b) >= 5 /\ Len(b) >= 7 + b[5]

MaxLimit == 3
MaxKeys == 5
MaxInserts == 5

InitCache ==
    /\ k_limit \in 1..MaxLimit           \* Cache(limit)
    /\ k_cache = <<>>                     \* super().__init__()
    /\ k_keys = <<>>
    /\ k_got = 0
    /\ AllocIdle
    /\ FramerIdle
    /\ SystemIdle
    /\ SocksIdle
    /\ TlsIdle
    /\ WireIdle

\* cache[key] = value; the value names the insertion
CacheInsert ==
    \E key \in 1..MaxKeys :
        /\ Len(k_keys) < MaxInserts
        /\ k_cache' = Cache_setitem(k_cache, k_limit, key, Len(k_keys) + 1)
        /\ k_keys' = Append(k_keys, key)
        /\ UNCHANGED <<k_limit, k_got, tvars, wvars, fvars, avars, svars, hvars>>

\* cache[key], as in SockProxy.resolveHost: the value or KeyError
CacheLookup ==
    \E key \in 1..MaxKeys :
        /\ k_got' = IF CacheHas(k_cache, key) THEN CacheGet(k_cache, key) ELSE 0 - 1
        /\ UNCHANGED <<k_limit, k_cache, k_keys, tvars, wvars, fvars, avars, svars, hvars>>

NextCache == CacheInsert \/ CacheLookup

SpecCache == InitCache /\ [][NextCache]_vars

Distinct(s) == \A i, j \in DOMAIN s : i # j => s[i] # s[j]

CacheKeys(cache) == [i \in DOMAIN cache |-> cache[i][1]]

\* C21: a cache of limit N >= 1 never holds more than N entries, and once
\* more than N pairwise distinct keys have been inserted it holds exactly N
\* entries, which are the N keys inserted last, oldest first.
C21_CacheBound ==
    /\ Len(k_cache) <= k_limit
    /\ (Distinct(k_keys) /\ Len(k_keys) > k_limit)
          => /\ Len(k_cache) = k_limit
             /\ CacheKeys(k_cache)
                  = SubSeq(k_keys, Len(k_keys) - k_limit + 1, Len(k_keys))

C21_Witness ==
    /\ k_limit = 2 /\ Len(k_keys) = 4 /\ Distinct(k_keys)
    /\ CacheKeys(k_cache) = SubSeq(k_keys, 3, 4)

(***************************************************************************)
(* Claims about Spec: the address cache and the lazy upstream connect.     *)
(***************************************************************************)
\* the lookup for host h of some earlier stream returned an A record
ResolvedBefore(h) ==
    \E q \in DOMAIN px :
        px[q].remote_host = h /\ px[q].dns = "done" /\ px[q].remote_addr # None

\* C22: once a lookup of hostname h has succeeded for some stream, and while
\* h is in the address cache, a CONNECT for h creates a stream that has the
\* cached address at once and starts no lookup, on whichever tunnel
\* connection it arrives.
C22_CachedHostNoLookup ==
    [][\A p \in DOMAIN px' \ DOMAIN px :
          LET h == px'[p].remote_host IN
          (ResolvedBefore(h) /\ CacheHas(addr_cache, h))
            => /\ px'[p].dns = "none"
               /\ px'[p].remote_addr = CacheGet(addr_cache, h)
               /\ px'[p].remote_addr = Answer]_vars

C22_Witness ==
    \E p, q \in DOMAIN px :
        /\ q < p /\ px[q].ep # px[p].ep
        /\ px[q].remote_host = "example.org" /\ px[p].remote_host = "example.org"
        /\ px[q].dns = "done" /\ px[q].remote_addr = Answer
        /\ px[p].dns = "none" /\ px[p].remote_addr = Answer

\* C23: every message TunnelProtocol.dataReceived hands to dispatchMessage
\* is at least five bytes long and its first four bytes, read as a
\* big-endian unsigned integer, equal its length, whatever bytes arrive.
C23_LenSelfConsistent ==
    \A i \in DOMAIN f_out :
        /\ Len(f_out[i]) >= 5
        /\ unpack_I(Take(f_out[i], 4)) = Len(f_out[i])

(***************************************************************************)
(* SpecTLS: one tunnel connection as seen by one endpoint whose context    *)
(* was built by SSLCtxFactory.cacheContext.  The other end is arbitrary.   *)
(* OpenSSL is taken to behave as documented:                               *)
(*   - the version is one both ends have enabled, the cipher one both ends *)
(*     have in their list; without either the handshake fails;             *)
(*   - with VERIFY_PEER a client fails the handshake if the server sends   *)
(*     no certificate, a server asks for one and fails a missing one if    *)
(*     VERIFY_FAIL_IF_NO_PEER_CERT is set; for a certificate sent, the     *)
(*     verify callback gets ok = the chain verifies against the files of   *)
(*     load_verify_locations, and a false return fails the handshake;      *)
(*   - application data is decrypted, and so dataReceived of the tunnel    *)
(*     protocol called, only after the handshake has succeeded.            *)
(***************************************************************************)
MaxFrames == 2

TlsVersions == {"SSLv3", "TLSv1", "TLSv1.1", "TLSv1.2", "TLSv1.3"}
TlsCiphers == {"ECDHE-RSA-AES128-GCM-SHA256", "AES256-SHA", "ECDHE-RSA-AES256-GCM-SHA384"}
\* the peer's certificate: none, signed by the CA of the ca file, or by another
TlsCerts == {"none", "ca", "other"}

\* the versions a method allows
MethodVersions(method) == IF method = "TLSv1_2_METHOD" THEN {"TLSv1.2"} ELSE TlsVersions

\* every certificate is accepted
verify_AcceptAll(ok) == TRUE

\* SSLCtxFactory.__init__: the default callback, return ok
verify(ok) == ok

\* SSLCtxFactory.cacheContext
cacheContext ==
    [method |-> "TLSv1_2_METHOD",
     options |-> {"SSLv2", "SSLv3", "TLSv1", "TLSv1.1"},      \* OP_NO_*
     cipher_list |-> {"ECDHE-RSA-AES128-GCM-SHA256"},
     verify_mode |-> {"VERIFY_PEER", "VERIFY_FAIL_IF_NO_PEER_CERT", "VERIFY_CLIENT_ONCE"}]

\* the outcome of the handshake of a context with a peer
Handshake(ctx, isClient, peer) ==
    LET vs == (MethodVersions(ctx.method) \ ctx.options) \cap peer.versions
        cs == ctx.cipher_list \cap peer.ciphers
        certOk == IF "VERIFY_PEER" \notin ctx.verify_mode THEN TRUE
                  ELSE IF peer.cert = "none"
                  THEN ~isClient /\ "VERIFY_FAIL_IF_NO_PEER_CERT" \notin ctx.verify_mode
                  ELSE verify(peer.cert = "ca")
    IN IF vs = {} \/ cs = {} \/ ~certOk THEN NoSession
       ELSE [version |-> CHOOSE v \in vs : TRUE, cipher |-> CHOOSE c \in cs : TRUE]

\* connectSSL (local, isClient) or listenSSL (remote) has a TCP connection
InitTLS ==
    /\ t_isClient \in BOOLEAN
    /\ t_peer \in [versions : SUBSET TlsVersions, ciphers : SUBSET TlsCiphers,
                    cert : TlsCerts]
    /\ t_conn = "handshake"
    /\ t_session = NoSession
    /\ t_frames = 0
    /\ AllocIdle
    /\ FramerIdle
    /\ SystemIdle
    /\ SocksIdle
    /\ CacheIdle
    /\ WireIdle

TLS_handshake ==
    /\ t_conn = "handshake"
    /\ t_session' = Handshake(cacheContext, t_isClient, t_peer)
    /\ t_conn' = IF t_session' = NoSession THEN "failed" ELSE "established"
    /\ UNCHANGED <<t_isClient, t_peer, t_frames, kvars, wvars, fvars, avars, svars, hvars>>

\* TunnelProtocol.dataReceived with a complete frame
TLS_dataReceived ==
    /\ t_conn = "established"
    /\ t_frames < MaxFrames
    /\ t_frames' = t_frames + 1
    /\ UNCHANGED <<t_isClient, t_peer, t_conn, t_session, kvars, wvars, fvars, avars, svars, hvars>>

NextTLS == TLS_handshake \/ TLS_dataReceived

SpecTLS == InitTLS /\ [][NextTLS]_vars

\* C26: a tunnel connection is established, and frames are dispatched on
\* it, only with TLS 1.2, the cipher ECDHE-RSA-AES128-GCM-SHA256 and a peer
\* certificate signed by the configured CA, whichever end this endpoint is.
C26_TlsBootstrap ==
    (t_conn = "established" \/ t_frames > 0)
        => /\ t_session = [version |-> "TLSv1.2", cipher |-> "ECDHE-RSA-AES128-GCM-SHA256"]
           /\ t_peer.cert = "ca"

C26_Witness ==
    /\ t_frames > 0
    /\ t_peer.cert = "ca"
    /\ t_peer.versions = TlsVersions /\ t_peer.ciphers = TlsCiphers

(***************************************************************************)
(* Claims about Spec: the stream tables and the close messages.            *)
(***************************************************************************)
\* C24: every id in the local table belongs to a client whose connection
\* has not been reported closed and has had its CONNECT written; an id
\* enters the table only together with the first write for it, so an id
\* that has left never returns; and the step that processes a CLOSE_REMOTE
\* or a CONNECT_REPLY with nonzero code for an id leaves the table without it.
C24_LocalTable ==
    /\ [](\A id \in DOMAIN l_socks :
             LET c == l_socks[id] IN
             /\ cl[c].sock_id = id
             /\ cl[c].tcp # "closed"
             /\ LogOf(sent_lr, id) # <<>> /\ LogOf(sent_lr, id)[1][1] = 1)
    /\ [][ \A id \in DOMAIN l_socks' \ DOMAIN l_socks : LogOf(sent_lr, id) = <<>> ]_vars
    /\ [][ LT_dispatches =>
             LET m == LT_message IN
             (m.type = 6 \/ (m.type = 2 /\ m.code # 0)) => m.id \notin DOMAIN l_socks' ]_vars

C24_Witness ==
    \E c, d \in DOMAIN cl :
        /\ cl[c].sock_id \in DOMAIN l_socks /\ cl[c].tcp = "open"
        /\ cl[d].sock_id \notin DOMAIN l_socks /\ cl[d].tcp = "aborted"
        /\ HasEntry(LogOf(sent_lr, cl[d].sock_id), <<1, 1>>)
        /\ HasEntry(LogOf(sent_rl, cl[d].sock_id), <<6, 1>>)
        /\ link = "up" /\ l_transport = 1 /\ wire_rl = <<>> /\ l_buffer = <<>>

(***************************************************************************)
(* SpecLive: Spec with the scheduling of the reactor.  Bytes that reached  *)
(* a socket are passed to dataReceived, and a connection that broke is     *)
(* reported to both protocols; what clients, targets and the network do    *)
(* stays free.                                                             *)
(***************************************************************************)
SpecLive ==
    /\ Spec
    /\ WF_vars(LT_dataReceived)
    /\ WF_vars(RT_dataReceived)
    /\ WF_vars(T_clientConnectionLost)
    /\ WF_vars(RT_connectionLost)

ClientIds == { U32(0, n) : n \in 1..MaxClients }

\* a CLOSE_REMOTE or a CONNECT_REPLY with nonzero code for the id was written
\* by the remote and received or about to be received by the local side
CloseInTransit(id) ==
    \E i \in DOMAIN (l_buffer \o wire_rl) :
        LET m == (l_buffer \o wire_rl)[i] IN
        m.id = id /\ (m.type = 6 \/ (m.type = 2 /\ m.code # 0))

\* C25: once the remote has written CLOSE_REMOTE or a failing CONNECT_REPLY
\* for a stream, then, unless the tunnel connection breaks, the local side
\* eventually has the stream out of its table, whether or not anything else
\* is sent on the tunnel afterwards.
C25_ClosingIsEventual ==
    \A id \in ClientIds :
        (CloseInTransit(id) /\ id \in DOMAIN l_socks)
            ~> (id \notin DOMAIN l_socks \/ link # "up")

\* how many CLOSE_LOCAL the log of an id holds
CloseLocalsIn(sent, id) ==
    Cardinality({ i \in DOMAIN LogOf(sent, id) : LogOf(sent, id)[i][1] = 5 })
CloseLocals(id) == CloseLocalsIn(sent_lr, id)

\* C27: in the step in which a client's connection is reported closed, if
\* its id is in the local table then exactly one CLOSE_LOCAL for it is
\* written to the dispatcher's transport and the id leaves the table; if
\* not, nothing is written and the table stays as it is.  No id ever has
\* more than one CLOSE_LOCAL written.  The last conjunct is the same
\* statement for the connectionLost that follows, within one event, a
\* request handler that raised: it runs in the dispatcher state the
\* handler left.
C27_CloseLocalEmission ==
    /\ [][ \A c \in DOMAIN cl :
             (cl[c].tcp # "closed" /\ cl'[c].tcp = "closed") =>
                LET id == cl[c].sock_id IN
                IF id \in DOMAIN l_socks
                THEN /\ sent_lr' = Put(sent_lr, id,
                                       Append(LogOf(sent_lr, id), <<5, l_transport>>))
                     /\ l_socks' = Remove(l_socks, id)
                     /\ wire_lr' = IF l_transport = epoch /\ link = "up"
                                   THEN Append(wire_lr, [type |-> 5, id |-> id])
                                   ELSE wire_lr
                ELSE /\ sent_lr' = sent_lr
                     /\ wire_lr' = wire_lr
                     /\ l_socks' = l_socks ]_vars
    /\ [](\A id \in DOMAIN sent_lr : CloseLocals(id) <= 1)
    /\ [](\A c \in DOMAIN cl, host \in Hosts, port \in Ports :
             (Running /\ cl[c].state = "waitConnectRemote" /\ cl[c].tcp = "open"
                /\ l_transport = 0) =>
                LET id == cl[c].sock_id
                    S1 == L_connectRemote(LocalState, c, host, port)
                    S2 == S5_raised(S1, c)
                IN id \in DOMAIN S1.socks =>
                      /\ CloseLocalsIn(S2.sent, id) = CloseLocalsIn(S1.sent, id) + 1
                      /\ id \notin DOMAIN S2.socks)

\* a step of the remote TunnelProtocol.dataReceived that dispatches a
\* message, and the message it dispatches
RT_dispatches ==
    /\ link = "up" /\ link' = "up"
    /\ Len(r_buffer' \o wire_lr') + 1 = Len(r_buffer \o wire_lr)
RT_message == Head(r_buffer \o wire_lr)

\* the CLOSE_REMOTE and CONNECT_REPLY messages written so far for the id of p
Terminals(p) ==
    Cardinality({ i \in DOMAIN LogOf(sent_rl, px[p].sock_id) :
                    LogOf(sent_rl, px[p].sock_id)[i][1] \in {2, 6} })

\* C28: a CLOSE_LOCAL for an id in the table removes the stream, aborts its
\* upstream connection if it has one, and writes nothing; when an upstream
\* connection is reported lost, a stream still in the table is removed and
\* exactly one CLOSE_REMOTE is written for it, a stream no longer in the
\* table has nothing written; no stream ever has more than one CLOSE_REMOTE
\* or CONNECT_REPLY written for it.
C28_RemoteCloseNoEcho ==
    /\ [][ RT_dispatches =>
             LET m == RT_message IN
             (m.type = 5 /\ m.id \in DOMAIN r_socks[epoch]) =>
                LET p == r_socks[epoch][m.id] IN
                /\ r_socks' = [r_socks EXCEPT ![epoch] = Remove(@, m.id)]
                /\ px'[p].up = IF px[p].transport # None
                                THEN abortConnection(px[p].up) ELSE px[p].up
                /\ sent_rl' = sent_rl /\ wire_rl' = wire_rl ]_vars
    /\ [][ \A p \in DOMAIN px :
             (px[p].up \in {"open", "losing", "aborted"} /\ px'[p].up = "closed") =>
                IF InTable(p)
                THEN /\ sent_rl' = Put(sent_rl, px[p].sock_id,
                                       Append(LogOf(sent_rl, px[p].sock_id), <<6, px[p].ep>>))
                     /\ (px[p].ep = epoch /\ link = "up") =>
                            wire_rl' = Append(wire_rl, [type |-> 6, id |-> px[p].sock_id])
                     /\ ~(InTable(p))'
                ELSE sent_rl' = sent_rl /\ wire_rl' = wire_rl ]_vars
    /\ [](\A p \in DOMAIN px : Terminals(p) <= 1)

C28_Witness ==
    \E p, q \in DOMAIN px :
        /\ px[p].up = "closed" /\ px[p].transport # None /\ ~InTable(p)
        /\ HasEntry(LogOf(sent_lr, px[p].sock_id), <<5, 1>>) /\ Terminals(p) = 0
        /\ px[q].up = "closed" /\ px[q].transport # None /\ ~InTable(q)
        /\ LogOf(sent_rl, px[q].sock_id) = << <<6, 1>> >>
        /\ wire_lr = <<>> /\ r_buffer = <<>> /\ link = "up"

\* C29: an upstream connect has been initiated for a stream exactly if its
\* address is known and a DATA_OUT has been passed to it.  A DATA_OUT for a
\* stream without address is appended to its buffer and nothing else; one
\* for a stream with address and no connect initiated is appended and the
\* connect is initiated; a successful lookup initiates the connect iff the
\* buffer is not empty; a stream just created by CONNECT has no connect.
C29_LazyConnect ==
    /\ [](\A p \in DOMAIN px :
             /\ px[p].has_connect <=> (px[p].remote_addr # None /\ px[p].received # <<>>)
             /\ px[p].has_connect <=> (px[p].up # "none"))
    /\ [][ RT_dispatches =>
             LET m == RT_message IN
             (m.type = 3 /\ m.id \in DOMAIN r_socks[epoch]) =>
                LET p == r_socks[epoch][m.id]
                    q == [px[p] EXCEPT !.buffer = @ \o m.data,
                                       !.received = Append(@, m.data)]
                IN /\ px[p].remote_addr = None => px'[p] = q
                   /\ (px[p].remote_addr # None /\ ~px[p].has_connect)
                        => px'[p] = [q EXCEPT !.has_connect = TRUE, !.up = "connecting",
                                              !.connects = 1] ]_vars
    /\ [][ \A p \in DOMAIN px :
             (px[p].dns = "pending" /\ px'[p].dns = "done" /\ px'[p].remote_addr # None)
                => /\ px'[p].has_connect <=> (px[p].buffer # <<>>)
                   /\ px'[p].buffer = px[p].buffer ]_vars
    /\ [][ \A p \in DOMAIN px' \ DOMAIN px :
             ~px'[p].has_connect /\ px'[p].up = "none" /\ px'[p].buffer = <<>> ]_vars

C29_Witness ==
    \E p, q \in DOMAIN px :
        /\ px[p].remote_host = "example.org" /\ px[p].dns = "done"
        /\ px[p].has_connect /\ px[p].up = "connecting" /\ px[p].buffer # <<>>
        /\ px[q].remote_host = "10.0.0.1" /\ InTable(q)
        /\ ~px[q].has_connect /\ px[q].up = "none"
        /\ wire_lr = <<>> /\ r_buffer = <<>>

\* C30: reactor.connectTCP is called at most once for a target stream, and
\* has_connect, which records that it was called, never becomes false again.
C30_OneConnectPerStream ==
    /\ [](\A p \in DOMAIN px :
             /\ px[p].connects <= 1
             /\ px[p].has_connect <=> (px[p].connects = 1))
    /\ [][ \A p \in DOMAIN px : px[p].has_connect => px'[p].has_connect ]_vars

C30_Witness ==
    \E p \in DOMAIN px :
        /\ px[p].connects = 1 /\ px[p].up = "connecting" /\ InTable(p)
        /\ Len(px[p].received) = 2 /\ Len(px[p].buffer) = 2
        /\ px[p].remote_host = "example.org" /\ px[p].dns = "done"

(***************************************************************************)
(* Claims about SpecSocks: chunk boundaries.                               *)
(***************************************************************************)
\* a greeting that offers method 0, followed by a well-formed CONNECT request
\* and the payload
WellFormedInput ==
    \E g \in Greetings, r \in Requests :
        /\ s5_all = g \o r \o Payload
        /\ g[1] = 5 /\ g[2] >= 1 /\ Len(g) = 2 + g[2] /\ \E i \in 3..Len(g) : g[i] = 0
        /\ ValidRequest(r)

\* the payload bytes of a sequence of DATA_OUT messages
RECURSIVE DataOf(_)
DataOf(msgs) == IF msgs = <<>> THEN <<>> ELSE Head(msgs).data \o DataOf(Tail(msgs))

\* C31: once every byte of greeting, CONNECT request and payload has been
\* delivered to a client that is still connected, in whatever chunks, the
\* client has been sent 05 00 and the success reply, and the tunnel has been
\* written one CONNECT followed by DATA_OUT messages carrying the payload.
C31_ChunkIndependence ==
    (s5_in = <<>> /\ cl[1].tcp = "open" /\ WellFormedInput) =>
        /\ s5_out = sendHelloReply(0) \o sendConnectReply(0)
        /\ wire_lr # <<>> /\ wire_lr[1].type = 1
        /\ \A i \in 2..Len(wire_lr) : wire_lr[i].type = 3
        /\ DataOf(Tail(wire_lr)) = Payload

(***************************************************************************)
(* Claims about Spec: the start of the local side.                         *)
(***************************************************************************)
\* C32: nothing is written to the tunnel without a tunnel transport, and no
\* handler that writes to the tunnel runs before the first tunnel connection
\* is made: whenever a client is in a state in which its next chunk makes
\* the dispatcher write a CONNECT (a well-formed request) or a DATA_OUT, and
\* whenever an id is in the table so that its client's close makes the
\* dispatcher write a CLOSE_LOCAL, the dispatcher has a transport.
C32_NoWriteBeforeTunnel ==
    /\ \A id \in DOMAIN sent_lr : \A i \in DOMAIN sent_lr[id] : sent_lr[id][i][2] # 0
    /\ \A c \in DOMAIN cl :
          (Running /\ cl[c].tcp = "open" /\ cl[c].state \in {"waitConnectRemote", "sendRemote"})
              => l_transport # 0
    /\ l_socks # <<>> => l_transport # 0

\* C33: when the first connect attempt of the tunnel ends without a
\* connection having been made, the local event loop is stopped; once it is
\* stopped it stays stopped: no further connect attempt, no tunnel, and no
\* local handler runs.
C33_InitialFailureFatal ==
    /\ [][ (tun = "connecting" /\ tun' # "connecting" /\ epoch' = epoch)
              => tun' = "stopped" ]_vars
    /\ [][ tun = "stopped"
              => UNCHANGED <<tun, epoch, link, l_transport, l_socks, l_buffer, cl,
                             sent_lr, c_sent, c_recv>> ]_vars

\* the first attempt failed while a client was already being served
C33_Witness ==
    /\ tun = "stopped" /\ epoch = 0 /\ l_transport = 0
    /\ \E c \in DOMAIN cl : cl[c].state = "waitConnectRemote"

(***************************************************************************)
(* SpecWire: the bytes the two dispatchers hand to their tunnel transport. *)
(* Each handler is applied to arguments drawn from small sets; the         *)
(* transport appends what it is given to its stream in the order of the    *)
(* write calls.  Host bytes are ASCII.                                     *)
(***************************************************************************)
MaxCalls == 3
WireIds == { U32(0, 1), U32(258, 772) }
\* b'', b'a.b', b' a ', and 'e' with an acute accent in UTF-8
WireHosts == { <<>>, <<97, 46, 98>>, <<32, 97, 32>>, <<195, 169>> }
WirePorts == { 80, 443 }
WireData == { <<7>>, <<7, 8, 9>> }
WireCodes == { 0, 1 }

pack_H(n) == << (n \div 256) % 256, n % 256 >>
unpack_Id(b) == U32(b[1] * 256 + b[2], b[3] * 256 + b[4])

\* the writes of local SocksDispatcher.connectRemote: one message
LW_connectRemote(sock_id_, host, port) ==
    LET host_length == Len(host)
        total_length == 11 + host_length
    IN << pack_I(total_length) \o pack_B(1) \o pack_Id(sock_id_) \o host \o pack_H(port) >>

\* the length field leaves out the header
LW_sendRemote_DataLength(sock_id_, data) ==
    << pack_I(Len(data)) \o pack_B(3) \o pack_Id(sock_id_), data >>

\* the writes of local SocksDispatcher.sendRemote: the header, then the data
LW_sendRemote(sock_id_, data) ==
    LET total_length == 9 + Len(data)
    IN << pack_I(total_length) \o pack_B(3) \o pack_Id(sock_id_), data >>

\* the writes of local SocksDispatcher.closeRemote
LW_closeRemote(inTable, sock_id_) ==
    IF ~inTable THEN <<>>
    ELSE << pack_I(9) \o pack_B(5) \o pack_Id(sock_id_) >>

\* the writes of remote SocksDispatcher.handleConnect
RW_handleConnect(sock_id_, code) ==
    IF code = 0 THEN <<>> ELSE << msgConnectReply(sock_id_, code) >>

\* the writes of remote SocksDispatcher.handleRemote: writeSequence([header, data])
RW_handleRemote(sock_id_, data) ==
    LET total_length == 9 + Len(data)
    IN << pack_I(total_length) \o pack_B(4) \o pack_Id(sock_id_), data >>

\* the writes of remote SocksDispatcher.handleClose
RW_handleClose(inTable, sock_id_) ==
    IF ~inTable THEN <<>> ELSE << msgCloseRemote(sock_id_) >>

InitWire ==
    /\ w_calls = <<>> /\ w_lr = <<>> /\ w_rl = <<>>
    /\ AllocIdle
    /\ FramerIdle
    /\ SystemIdle
    /\ SocksIdle
    /\ CacheIdle
    /\ TlsIdle

\* the record of one handler call
Call(dir, type, args, writes) ==
    [dir |-> dir, type |-> type, args |-> args, writes |-> writes]

\* transport.write: the bytes are appended to the transport's stream
write(stream, writes) == stream \o Concat(writes)

Wire_connectRemote ==
    \E id \in WireIds, host \in WireHosts, port \in WirePorts :
        LET writes == LW_connectRemote(id, host, port) IN
        /\ Len(w_calls) < MaxCalls
        /\ w_calls' = Append(w_calls, Call("lr", 1, <<id, host, port>>, writes))
        /\ w_lr' = write(w_lr, writes)
        /\ UNCHANGED <<w_rl, kvars, tvars, fvars, avars, svars, hvars>>

Wire_sendRemote ==
    \E id \in WireIds, data \in WireData :
        LET writes == LW_sendRemote(id, data) IN
        /\ Len(w_calls) < MaxCalls
        /\ w_calls' = Append(w_calls, Call("lr", 3, <<id, data>>, writes))
        /\ w_lr' = write(w_lr, writes)
        /\ UNCHANGED <<w_rl, kvars, tvars, fvars, avars, svars, hvars>>

Wire_closeRemote ==
    \E id \in WireIds, inTable \in BOOLEAN :
        LET writes == LW_closeRemote(inTable, id) IN
        /\ Len(w_calls) < MaxCalls
        /\ w_calls' = Append(w_calls, Call("lr", 5, <<id>>, writes))
        /\ w_lr' = write(w_lr, writes)
        /\ UNCHANGED <<w_rl, kvars, tvars, fvars, avars, svars, hvars>>

Wire_handleConnect ==
    \E id \in WireIds, code \in WireCodes :
        LET writes == RW_handleConnect(id, code) IN
        /\ Len(w_calls) < MaxCalls
        /\ w_calls' = Append(w_calls, Call("rl", 2, <<id, code>>, writes))
        /\ w_rl' = write(w_rl, writes)
        /\ UNCHANGED <<w_lr, kvars, tvars, fvars, avars, svars, hvars>>

Wire_handleRemote ==
    \E id \in WireIds, data \in WireData :
        LET writes == RW_handleRemote(id, data) IN
        /\ Len(w_calls) < MaxCalls
        /\ w_calls' = Append(w_calls, Call("rl", 4, <<id, data>>, writes))
        /\ w_rl' = write(w_rl, writes)
        /\ UNCHANGED <<w_lr, kvars, tvars, fvars, avars, svars, hvars>>

Wire_handleClose ==
    \E id \in WireIds, inTable \in BOOLEAN :
        LET writes == RW_handleClose(inTable, id) IN
        /\ Len(w_calls) < MaxCalls
        /\ w_calls' = Append(w_calls, Call("rl", 6, <<id>>, writes))
        /\ w_rl' = write(w_rl, writes)
        /\ UNCHANGED <<w_lr, kvars, tvars, fvars, avars, svars, hvars>>

NextWire ==
    \/ Wire_connectRemote
    \/ Wire_sendRemote
    \/ Wire_closeRemote
    \/ Wire_handleConnect
    \/ Wire_handleRemote
    \/ Wire_handleClose

SpecWire == InitWire /\ [][NextWire]_vars

\* the writes of the calls of one direction, call by call
WritesOf(dir) ==
    LET idx == { i \in DOMAIN w_calls : w_calls[i].dir = dir }
        RECURSIVE upTo(_)
        upTo(n) == IF n = 0 THEN <<>>
                   ELSE IF n \in idx THEN upTo(n - 1) \o Concat(w_calls[n].writes)
                   ELSE upTo(n - 1)
    IN upTo(Len(w_calls))

\* a byte stream that is a sequence of whole messages, each with a length
\* field of at least 5 that counts the message's own bytes
RECURSIVE WellFramed(_)
WellFramed(b) ==
    \/ b = <<>>
    \/ /\ Len(b) >= 4
       /\ unpack_I(Take(b, 4)) >= 5
       /\ unpack_I(Take(b, 4)) <= Len(b)
       /\ WellFramed(Drop(b, unpack_I(Take(b, 4))))

\* C34: the writes of every handler call that writes at all, taken together,
\* are one message whose first four bytes, read as a big-endian integer,
\* equal the number of bytes written, at least 5, and whose fifth byte is
\* the type; each transport's stream is the concatenation of these messages
\* in the order of the calls, so that the header and the data of a bulk
\* message are adjacent and the stream splits into whole messages.
C34_WriteSideLen ==
    /\ \A i \in DOMAIN w_calls :
          LET m == Concat(w_calls[i].writes) IN
          w_calls[i].writes # <<>> =>
              /\ Len(m) >= 5
              /\ unpack_I(Take(m, 4)) = Len(m)
              /\ m[5] = w_calls[i].type
    /\ w_lr = WritesOf("lr") /\ w_rl = WritesOf("rl")
    /\ WellFramed(w_lr) /\ WellFramed(w_rl)

\* one message of each of the six types has been written, the bulk ones in
\* two writes
C34_Witness ==
    /\ \E i \in DOMAIN w_calls : w_calls[i].type = 3 /\ Len(w_calls[i].writes) = 2
    /\ \E i \in DOMAIN w_calls : w_calls[i].type = 4 /\ Len(w_calls[i].writes) = 2
    /\ \E i \in DOMAIN w_calls : w_calls[i].type = 1 /\ Len(w_calls[i].args[2]) = 3
    /\ Len(w_calls) = MaxCalls /\ w_lr # <<>> /\ w_rl # <<>>

(***************************************************************************)
(* The remote's reading of a CONNECT message.  A str is kept as the        *)
(* sequence of its code points.                                            *)
(***************************************************************************)
\* bytes.decode('utf-8') for sequences of one and two bytes; anything else
\* the model's hosts do not contain, and a malformed sequence raises
Raised == <<0 - 1>>
RECURSIVE utf8_decode(_)
utf8_decode(b) ==
    IF b = <<>> THEN <<>>
    ELSE IF b[1] < 128
         THEN LET r == utf8_decode(Tail(b)) IN
              IF r = Raised THEN r ELSE <<b[1]>> \o r
    ELSE IF b[1] \in 194..223 /\ Len(b) >= 2 /\ b[2] \in 128..191
         THEN LET r == utf8_decode(Drop(b, 2)) IN
              IF r = Raised THEN r ELSE <<(b[1] - 192) * 64 + (b[2] - 128)>> \o r
    ELSE Raised

\* str.encode('utf-8') for code points below 2048
RECURSIVE utf8_encode(_)
utf8_encode(t) ==
    IF t = <<>> THEN <<>>
    ELSE IF t[1] < 128 THEN <<t[1]>> \o utf8_encode(Tail(t))
    ELSE <<192 + (t[1] \div 64), 128 + (t[1] % 64)>> \o utf8_encode(Tail(t))

\* str.isspace for the code points below 2048
isspace(c) == c \in {9, 10, 11, 12, 13, 28, 29, 30, 31, 32, 133, 160, 1564}

\* str.strip()
RECURSIVE lstrip(_)
lstrip(t) == IF t # <<>> /\ isspace(t[1]) THEN lstrip(Tail(t)) ELSE t
RECURSIVE rstrip(_)
rstrip(t) == IF t # <<>> /\ isspace(t[Len(t)]) THEN rstrip(Take(t, Len(t) - 1)) ELSE t
strip(t) == rstrip(lstrip(t))

\* remote SocksDispatcher.connectRemote: the fields it reads from the message
R_decodeConnect(message) ==
    [sock_id |-> unpack_Id(SubSeq(message, 6, 9)),                    \* message[5:9]
     host |-> strip(utf8_decode(SubSeq(message, 10, Len(message) - 2))),
     port |-> unpack_H(SubSeq(message, Len(message) - 1, Len(message)))]

\* C35: for every CONNECT the local dispatcher writes, the id, host and port
\* the remote reads from the message are the id, host and port the local
\* dispatcher was given, the host byte for byte.
C35_ConnectRoundTrip ==
    \A i \in DOMAIN w_calls :
        w_calls[i].type = 1 =>
            LET d == R_decodeConnect(Concat(w_calls[i].writes)) IN
            /\ d.sock_id = w_calls[i].args[1]
            /\ d.host # Raised
            /\ utf8_encode(d.host) = w_calls[i].args[2]
            /\ d.port = w_calls[i].args[3]

(***************************************************************************)
(* Claims about SpecCache: the single operations.                          *)
(***************************************************************************)
KeySet(cache) == { cache[i][1] : i \in DOMAIN cache }

\* C36: a lookup leaves the cache as it is; setting a key that is not
\* present in a cache with fewer entries than its limit appends the pair
\* and removes nothing; setting a key that is not present in a cache with
\* as many entries as its limit removes entries from the oldest end, the
\* oldest first, and appends the pair; setting a key that is present gives
\* it the new value, leaves every other pair as it is and leaves the set
\* of keys as it is.
C36_CacheOperations ==
    [][ /\ (k_keys' = k_keys) => (k_cache' = k_cache)
        /\ (k_keys' # k_keys) =>
              LET key == k_keys'[Len(k_keys')]
                  value == Len(k_keys')
              IN /\ (~CacheHas(k_cache, key) /\ Len(k_cache) < k_limit)
                        => k_cache' = Append(k_cache, <<key, value>>)
                 /\ (~CacheHas(k_cache, key) /\ Len(k_cache) >= k_limit)
                        => k_cache' = Append(Drop(k_cache, Len(k_cache) - k_limit + 1),
                                             <<key, value>>)
                 /\ CacheHas(k_cache, key)
                        => /\ KeySet(k_cache') = KeySet(k_cache)
                           /\ CacheGet(k_cache', key) = value
                           /\ \A i \in DOMAIN k_cache :
                                 k_cache[i][1] # key =>
                                    /\ CacheHas(k_cache', k_cache[i][1])
                                    /\ CacheGet(k_cache', k_cache[i][1]) = k_cache[i][2]
      ]_vars

(***************************************************************************)
(* Claims about Spec: the owner of an upstream connection.                 *)
(***************************************************************************)
\* the target stream has an upstream connection that is open or being made
UpstreamLive(R, p) == R.px[p].up \in {"connecting", "open"}

\* the table of the stream's tunnel connection holds it under its id
OwnedIn(R, p) ==
    LET t == R.socks[R.px[p].ep] IN
    R.px[p].sock_id \in DOMAIN t /\ t[R.px[p].sock_id] = p

\* C37: every target stream whose upstream connection is open or being
\* made is in the stream table of its tunnel connection under its id; and
\* this stays so when a CONNECT arrives whose id is already in the table.
C37_UpstreamOwned ==
    /\ \A p \in DOMAIN px : UpstreamLive(RemoteState, p) => OwnedIn(RemoteState, p)
    /\ \A e \in DOMAIN r_socks : \A id \in DOMAIN r_socks[e] :
          \A host \in Hosts, port \in Ports :
             LET R == R_connectRemote(RemoteState, e,
                                      [type |-> 1, id |-> id, host |-> host, port |-> port])
             IN \A p \in DOMAIN px :
                   (UpstreamLive(R, p) \/ R.px[p].dns = "pending") => OwnedIn(R, p)

(***************************************************************************)
(* SpecResolve: the remote dispatcher alone, behind an established tunnel, *)
(* with two CONNECT messages and one DATA_OUT in flight.  The hosts are    *)
(* drawn from a set that holds a dotted quad, two names and a name that    *)
(* begins with a dotted quad.                                              *)
(***************************************************************************)
ResolveHosts == { "10.0.0.1", "example.org", "10.0.0.1.example.org", "1.2.3" }

InitResolve ==
    /\ tun = "up" /\ epoch = 1 /\ link = "up" /\ l_transport = 1
    /\ l_socks = <<>> /\ l_buffer = <<>> /\ cl = <<>> /\ wire_rl = <<>>
    /\ \E h1, h2 \in ResolveHosts :
          wire_lr = << [type |-> 1, id |-> U32(0, 1), host |-> h1, port |-> 80],
                       [type |-> 1, id |-> U32(0, 2), host |-> h2, port |-> 80],
                       [type |-> 3, id |-> U32(0, 2), data |-> << <<"c", 2, 1>> >>] >>
    /\ r_socks = << <<>> >> /\ r_alive = <<TRUE>> /\ r_buffer = <<>> /\ px = <<>>
    /\ addr_cache = <<>>
    /\ sent_lr = <<>> /\ sent_rl = <<>> /\ c_sent = <<>> /\ c_recv = <<>> /\ n_events = 0
    /\ AllocIdle
    /\ FramerIdle
    /\ SocksIdle
    /\ OthersIdle

NextResolve ==
    \/ RT_dataReceived
    \/ DNS_result
    \/ UP_connectionMade
    \/ UP_clientConnectionFailed

SpecResolve == InitResolve /\ [][NextResolve]_vars

\* C38: a target stream created for a host that is, as a whole, an IPv4
\* dotted quad has the host as its address, with no lookup started and the
\* cache untouched; a stream created for any other host has the cached
\* address if the cache holds the host, and otherwise no address yet and a
\* lookup pending.  While a lookup is pending the dispatcher goes on
\* receiving: further messages on the tunnel can be processed.
C38_AddressSelection ==
    /\ [][ \A p \in DOMAIN px' \ DOMAIN px :
             LET host == px'[p].remote_host IN
             IF IP_fullmatch(HostChars(host))
             THEN px'[p].remote_addr = host /\ px'[p].dns = "none"
             ELSE IF CacheHas(addr_cache, host)
                  THEN px'[p].remote_addr = CacheGet(addr_cache, host) /\ px'[p].dns = "none"
                  ELSE px'[p].remote_addr = None /\ px'[p].dns = "pending" ]_vars
    /\ []( (wire_lr # <<>> /\ \E p \in DOMAIN px : px[p].dns = "pending")
              => ENABLED RT_dataReceived )

====
